---- MODULE Spec2Model ----
(***************************************************************************)
(* Area-fill and exposure-assignment engine of                             *)
(* src/Project/GetPlanes/Establish_Hierarchy.py: hierarchy detection,      *)
(* contour building, raster fill, shutter assignment and trajectory        *)
(* simplification.                                                         *)
(*                                                                         *)
(* Coordinates are fixed-point integers: one coordinate unit of the        *)
(* program is Scale model units, so that the program's three tolerances    *)
(* (1e-5 on point equality, 1e-3 on the border distance, 1e-5 on the cross *)
(* product) are whole numbers and points closer than a tolerance, but not  *)
(* equal, exist in the model.                                              *)
(***************************************************************************)
EXTENDS Integers, Sequences, FiniteSets, TLC

VARIABLES
    pc,                 \* position of the running job
    trajectory,         \* list of fill points <<x, y>>
    allowed_area,       \* parent polygon with the child as a hole
    hole_poly,          \* child polygon, or the empty polygon
    traj_with_shutter,  \* list of segments [start, end, shutter]
    traj_simplified,    \* simplify_trajectory(traj_with_shutter)
    traj_resimplified,  \* simplify_trajectory(traj_simplified)
    father_poly,        \* parent polygon without hole: the area scanned
    spacing,            \* distance between scanlines and between samples
    scanlines,          \* heights of the scanlines, bottom to top
    scan_i,             \* index of the scanline being processed
    line_points,        \* points of the scanline processed last
    planes_info,        \* list of planes [vertices, polygon]
    hierarchy,          \* list of pairs <<parent_index, child_index>>
    father_idx,         \* index of the plane used as outer boundary
    son_idx,            \* index of the plane used as void, or NoIndex
    segments,           \* list of segment records of one plane
    resolution,         \* number of intervals an arc is interpolated into
    contour,            \* outcome of build_polygon_segments
    trajectory_file,    \* lines of the saved trajectory file
    program,            \* lines of the emitted program, or None
    polygon,            \* polygon filled by the spiral
    theta,              \* angle of the spiral, in thousandths of a radian
    pts,                \* samples of the spiral
    states,             \* inside flag of each sample
    polygon_points,     \* contour stitched so far
    seg_i,              \* number of segments stitched so far
    warned,             \* the connectivity warning was printed
    arc,                \* arc segment being interpolated
    arc_resolution,     \* number of intervals of the interpolation
    extrusion_z,        \* z component of the arc's extrusion vector
    arc_points,         \* points returned by interpolate_arc
    arc_angles,         \* angle of each returned point, in degrees
    code_segments,      \* segments handed to generate_aerobasic_code
    code_speed,         \* speed handed to generate_aerobasic_code
    motion_blocks,      \* commands of the spiral program's planes so far
    plane_count,        \* number of planes whose commands were generated
    edges,              \* edges [type, start, end] of the PLANOS section
    vertices_map,       \* for each end point, the indices of its edges
    visited,            \* indices of the edges already grouped
    stack,              \* indices of the edges still to be looked at
    current_plane,      \* indices of the edges of the plane being collected
    edge_idx,           \* index of the edge the outer loop is at
    grouped_planes      \* planes returned by group_connected_edges

regionVars == <<trajectory, allowed_area, hole_poly>>

rasterVars == <<father_poly, spacing, scanlines, scan_i, line_points>>

hierarchyVars == <<planes_info, hierarchy, father_idx, son_idx>>

contourVars == <<segments, resolution, contour>>

simplifyVars == <<traj_with_shutter, traj_simplified, traj_resimplified>>

emitVars == <<trajectory_file, program>>

spiralVars == <<polygon, theta, pts, states>>

stitchVars == <<polygon_points, seg_i, warned>>

arcVars == <<arc, arc_resolution, extrusion_z, arc_points, arc_angles>>

codeVars == <<code_segments, code_speed>>

fillCodeVars == <<motion_blocks, plane_count>>

groupVars == <<edges, vertices_map, visited, stack, current_plane, edge_idx,
               grouped_planes>>

vars == <<pc, regionVars, simplifyVars, rasterVars, hierarchyVars, contourVars,
          emitVars, spiralVars, stitchVars,
         arcVars,
         codeVars,
         fillCodeVars,
         groupVars>>

\* Model units per coordinate unit (a multiple of 9, so that the ninths of the
\* 10-unit scanline of the end-to-end scenario are whole numbers).
Scale == 9 * 100000

Abs(n) == IF n < 0 THEN -n ELSE n

Max2(a, b) == IF a >= b THEN a ELSE b

Min2(a, b) == IF a <= b THEN a ELSE b

\* Least and greatest of a non-empty set of integers.
SetMin(S) == CHOOSE x \in S : \A o \in S : x <= o

SetMax(S) == CHOOSE x \in S : \A o \in S : x >= o

SeqRange(s) == {s[k] : k \in 1..Len(s)}

\* list(reversed(s))
Reverse(s) == [k \in 1..Len(s) |-> s[Len(s) + 1 - k]]

\* The concatenation of a list of lists.
RECURSIVE Concat(_)
Concat(ss) == IF ss = <<>> THEN <<>> ELSE ss[1] \o Concat(Tail(ss))

(***************************************************************************)
(* Polygons.  A ring is an axis-aligned rectangle [minx, miny, maxx, maxy] *)
(* with minx < maxx and miny < maxy; a polygon is a shell ring with a list *)
(* of hole rings, or the empty polygon.  The predicates below are those of *)
(* the geometry library on such polygons.                                  *)
(***************************************************************************)
Ring(x0, y0, x1, y1) == [minx |-> x0, miny |-> y0, maxx |-> x1, maxy |-> y1]

\* Polygon(shell_coords, [hole_coords, ...])
Polygon(shell, holes) == [shell |-> <<shell>>, holes |-> holes]

\* Polygon()
EmptyPolygon == [shell |-> <<>>, holes |-> <<>>]

\* poly.bounds
Bounds(poly) == poly.shell[1]

\* The point lies strictly inside the ring.
InRingInterior(pt, r) ==
    r.minx < pt[1] /\ pt[1] < r.maxx /\ r.miny < pt[2] /\ pt[2] < r.maxy

\* The point lies inside or on the ring.
InRingClosed(pt, r) ==
    r.minx <= pt[1] /\ pt[1] <= r.maxx /\ r.miny <= pt[2] /\ pt[2] <= r.maxy

\* poly.contains(Point(pt)): the point is in the polygon's interior, that is
\* strictly inside the shell and neither inside nor on a hole.
PolygonContains(poly, pt) ==
    /\ poly.shell # <<>>
    /\ InRingInterior(pt, poly.shell[1])
    /\ \A h \in 1..Len(poly.holes) : ~ InRingClosed(pt, poly.holes[h])

\* The four edges of a ring, each an axis-aligned segment <<a, b>>.
RingEdges(r) ==
    {<<<<r.minx, r.miny>>, <<r.maxx, r.miny>>>>,
     <<<<r.maxx, r.miny>>, <<r.maxx, r.maxy>>>>,
     <<<<r.minx, r.maxy>>, <<r.maxx, r.maxy>>>>,
     <<<<r.minx, r.miny>>, <<r.minx, r.maxy>>>>}

\* Distance from pt to the axis-aligned segment e is below tol (Euclidean:
\* the offsets beyond the segment's extent on each axis, squared and summed).
EdgeCloserThan(pt, e, tol) ==
    LET dx == Max2(Max2(e[1][1] - pt[1], pt[1] - e[2][1]), 0)
        dy == Max2(Max2(e[1][2] - pt[2], pt[2] - e[2][2]), 0)
    IN  dx < tol /\ dy < tol /\ dx * dx + dy * dy < tol * tol

\* poly.boundary: the shell ring and every hole ring.
PolygonBoundary(poly) ==
    UNION {RingEdges(poly.shell[k]) : k \in 1..Len(poly.shell)}
        \cup UNION {RingEdges(poly.holes[h]) : h \in 1..Len(poly.holes)}

\* poly.boundary.distance(Point(pt)) < tol
BoundaryCloserThan(poly, pt, tol) ==
    \E e \in PolygonBoundary(poly) : EdgeCloserThan(pt, e, tol)

(***************************************************************************)
(* Plane information and hierarchy detection                               *)
(***************************************************************************)

\* Python's None, and a present value, for a plane's polygon.
None == <<>>

Some(v) == <<v>>

\* son_idx = None
NoIndex == -1

\* Polygon(vertices) for the vertex lists drawn below, the corners of an
\* axis-aligned rectangle in ring order: the ring of their extent.
RingOfVertices(vertices) ==
    LET xs == {vertices[k][1] : k \in 1..Len(vertices)}
        ys == {vertices[k][2] : k \in 1..Len(vertices)}
    IN  Ring(CHOOSE x \in xs : \A o \in xs : x <= o,
             CHOOSE y \in ys : \A o \in ys : y <= o,
             CHOOSE x \in xs : \A o \in xs : x >= o,
             CHOOSE y \in ys : \A o \in ys : y >= o)

\* build_polygon_from_vertices(vertices)
build_polygon_from_vertices(vertices) ==
    IF vertices = <<>> \/ Len(vertices) < 3
    THEN None
    ELSE Some(Polygon(RingOfVertices(vertices), <<>>))

\* extract_plane_info(plane_block), for a block with these vertices.
extract_plane_info(vertices) ==
    [vertices |-> vertices, polygon |-> build_polygon_from_vertices(vertices)]

\* poly2.within(poly1): no point of poly2 is outside poly1 (and their
\* interiors meet, which two rectangles of positive area inside one another do).
Within(poly2, poly1) ==
    LET a == poly2.shell[1]
        b == poly1.shell[1]
    IN  /\ b.minx <= a.minx /\ a.maxx <= b.maxx
        /\ b.miny <= a.miny /\ a.maxy <= b.maxy

\* Mutant of IsChildOf: the containment test taken the other way round.
IsChildOfSwapped(planes, i, j) ==
    /\ planes[i + 1].polygon # None
    /\ i # j
    /\ planes[j + 1].polygon # None
    /\ Within(planes[i + 1].polygon[1], planes[j + 1].polygon[1])

\* Lines 124-133: the pair (i, j), indices from 0, is appended to hierarchy.
IsChildOf(planes, i, j) ==
    /\ planes[i + 1].polygon # None
    /\ i # j
    /\ planes[j + 1].polygon # None
    /\ Within(planes[j + 1].polygon[1], planes[i + 1].polygon[1])

\* Mutant of LoopPairs: the child index in the outer loop.
LoopPairsChildMajor(n) == [k \in 1..(n * n) |-> <<(k - 1) % n, (k - 1) \div n>>]

\* The index pairs in the order of the two nested loops of detect_hierarchy.
LoopPairs(n) == [k \in 1..(n * n) |-> <<(k - 1) \div n, (k - 1) % n>>]

\* detect_hierarchy(planes_info)
detect_hierarchy(planes) ==
    SelectSeq(LoopPairs(Len(planes)),
              LAMBDA pr : IsChildOf(planes, pr[1], pr[2]))

\* No hierarchy detection in progress.
HierarchyIdle ==
    /\ planes_info = <<>>
    /\ hierarchy = <<>>
    /\ father_idx = NoIndex
    /\ son_idx = NoIndex

(***************************************************************************)
(* Contour builder.  Points are <<x, y, z>>.  A segment is a record of the *)
(* keys of the program's dictionary; an absent key is None.  A call either *)
(* returns a value or raises.                                              *)
(***************************************************************************)

Returned(v) == [raised |-> FALSE, value |-> v]

Raised == [raised |-> TRUE, value |-> <<>>]

\* Default of the parameter tol of points_equal: 1e-5.
TolPoint == Scale \div 100000

\* points_equal(p1, p2, tol): every pair of coordinates zip() gives.
points_equal(p1, p2, tol) ==
    \A c \in 1..Min2(Len(p1), Len(p2)) : Abs(p1[c] - p2[c]) < tol

\* math.cos and math.sin of an angle in degrees that is a multiple of 90.
Cos90(angle) ==
    LET q == (angle \div 90) % 4
    IN  IF q = 0 THEN 1 ELSE IF q = 2 THEN -1 ELSE 0

Sin90(angle) ==
    LET q == (angle \div 90) % 4
    IN  IF q = 1 THEN 1 ELSE IF q = 3 THEN -1 ELSE 0

\* interpolate_arc(segment, resolution); a missing key read with
\* segment[...] raises KeyError.
interpolate_arc(segment, res) ==
    IF segment.angulos = None
    THEN IF segment.desde = None \/ segment.hasta = None
         THEN Raised
         ELSE Returned(<<segment.desde[1], segment.hasta[1]>>)
    ELSE LET start_angle == segment.angulos[1][1]
             end_angle == IF segment.angulos[1][2] <= start_angle
                          THEN segment.angulos[1][2] + 360
                          ELSE segment.angulos[1][2]
             \* np.linspace(start_angle, end_angle, num=resolution + 1)
             angles == [k \in 1..(res + 1) |->
                          start_angle
                              + ((end_angle - start_angle) * (k - 1)) \div res]
         IN  IF segment.centro = None \/ segment.radio = None
             THEN Raised
             ELSE LET center == segment.centro[1]
                      radius == segment.radio[1]
                  IN  Returned([k \in 1..(res + 1) |->
                          <<center[1] + radius * Cos90(angles[k]),
                            center[2] + radius * Sin90(angles[k]),
                            IF Len(center) > 2 THEN center[3] ELSE 0>>])

\* The array angles of interpolate_arc (lines 160-163): resolution + 1 values
\* from start_angle to end_angle, 360 added to an end_angle not above the
\* start_angle.
ArcAngles(segment, res) ==
    LET start_angle == segment.angulos[1][1]
        end_angle == IF segment.angulos[1][2] <= start_angle
                     THEN segment.angulos[1][2] + 360
                     ELSE segment.angulos[1][2]
    IN  [k \in 1..(res + 1) |->
            start_angle + ((end_angle - start_angle) * (k - 1)) \div res]

\* np.allclose(a, b, atol=atol) with the default rtol of 1e-5.
AllClose(a, b, atol) ==
    \A c \in 1..Len(a) : Abs(a[c] - b[c]) <= atol + Abs(b[c]) \div 100000

\* np.linspace(first, last, num)
Linspace(first, last, num) ==
    [k \in 1..num |-> first + ((last - first) * (k - 1)) \div (num - 1)]

\* interpolate_arc(segment, resolution, extrusion) of the raster and spiral
\* fill programs, whose keys 'start' and 'end' hold the fields Desde and
\* Hasta of the planes file (desde and hasta here).  The result carries,
\* beside the points, the angle each point was computed from.
interpolate_arc_fill(segment, res, extrusion_zc) ==
    IF segment.angulos = None
    THEN [points |-> <<segment.desde[1], segment.hasta[1]>>, angles |-> <<>>]
    ELSE LET center == segment.centro[1]
             radius == segment.radio[1]
             given_start == segment.angulos[1][1]
             given_end == segment.angulos[1][2]
             start_angle == IF extrusion_zc >= 0 /\ given_end > given_start
                            THEN given_start + 360
                            ELSE given_start
             end_angle == IF extrusion_zc < 0 /\ given_end < given_start
                          THEN given_end + 360
                          ELSE given_end
             linear == Linspace(start_angle, end_angle, res + 1)
             angles == IF extrusion_zc < 0 THEN linear ELSE Reverse(linear)
             points == [k \in 1..(res + 1) |->
                          <<center[1] + radius * Cos90(angles[k] % 360),
                            center[2] + radius * Sin90(angles[k] % 360),
                            IF Len(center) > 2 THEN center[3] ELSE 0>>]
         IN  IF ~ AllClose(points[1], segment.desde[1], TolPoint)
             THEN [points |-> Reverse(points), angles |-> Reverse(angles)]
             ELSE [points |-> points, angles |-> angles]

\* get_segment_points(segment, resolution)
get_segment_points(segment, res) ==
    IF segment.tipo = "ARC"
    THEN interpolate_arc(segment, res)
    ELSE Returned((IF segment.desde # None THEN <<segment.desde[1]>> ELSE <<>>)
                      \o (IF segment.hasta # None
                          THEN <<segment.hasta[1]>> ELSE <<>>))

\* Mutant of StitchSegment: a segment that ends at the contour's last point
\* is appended without being reversed.
StitchSegmentNoReverse(st, seg_points) ==
    IF seg_points = <<>>
    THEN st
    ELSE IF st.points = <<>>
    THEN [st EXCEPT !.points = seg_points]
    ELSE IF points_equal(st.points[Len(st.points)], seg_points[1], TolPoint)
    THEN [st EXCEPT !.points = st.points \o Tail(seg_points)]
    ELSE IF points_equal(st.points[Len(st.points)],
                         seg_points[Len(seg_points)], TolPoint)
    THEN [st EXCEPT !.points = st.points \o Tail(seg_points)]
    ELSE [points |-> st.points \o seg_points, warned |-> TRUE]

\* Lines 203-215: the contour after one segment's points. st.points is
\* polygon_points, st.warned tells whether the warning was printed.
StitchSegment(st, seg_points) ==
    IF seg_points = <<>>
    THEN st
    ELSE IF st.points = <<>>
    THEN [st EXCEPT !.points = seg_points]
    ELSE IF points_equal(st.points[Len(st.points)], seg_points[1], TolPoint)
    THEN [st EXCEPT !.points = st.points \o Tail(seg_points)]
    ELSE IF points_equal(st.points[Len(st.points)],
                         seg_points[Len(seg_points)], TolPoint)
    THEN [st EXCEPT !.points = st.points \o Tail(Reverse(seg_points))]
    ELSE [points |-> st.points \o seg_points, warned |-> TRUE]

\* Mutant of CloseContour: the contour returned as stitched, never closed.
CloseContourNever(contour_points) ==
    IF contour_points = <<>>
    THEN Raised
    ELSE Returned(contour_points)

\* Lines 216-218: polygon_points[0] of an empty list raises IndexError.
CloseContour(contour_points) ==
    IF contour_points = <<>>
    THEN Raised
    ELSE IF ~ points_equal(contour_points[1],
                           contour_points[Len(contour_points)], TolPoint)
    THEN Returned(Append(contour_points, contour_points[1]))
    ELSE Returned(contour_points)

\* Lines 200-215: the loop over the segments, from the k-th on; None when
\* get_segment_points raises.
RECURSIVE StitchLoop(_, _, _, _)
StitchLoop(segs, k, st, res) ==
    IF k > Len(segs)
    THEN Some(st)
    ELSE LET got == get_segment_points(segs[k], res)
         IN  IF got.raised
             THEN None
             ELSE StitchLoop(segs, k + 1, StitchSegment(st, got.value), res)

\* build_polygon_segments(segments, resolution), with the warning flag.
build_polygon_segments(segs, res) ==
    LET st == StitchLoop(segs, 1, [points |-> <<>>, warned |-> FALSE], res)
    IN  IF st = None
        THEN [raised |-> TRUE, value |-> <<>>, warned |-> FALSE]
        ELSE LET closed == CloseContour(st[1].points)
             IN  [raised |-> closed.raised, value |-> closed.value,
                  warned |-> st[1].warned]

\* No arc interpolation in progress.
ArcIdle ==
    /\ arc = <<>>
    /\ arc_resolution = 0
    /\ extrusion_z = 0
    /\ arc_points = <<>>
    /\ arc_angles = <<>>

\* No call of generate_aerobasic_code in progress.
CodeIdle ==
    /\ code_segments = <<>>
    /\ code_speed = 0

\* No spiral program under construction.
FillCodeIdle ==
    /\ motion_blocks = <<>>
    /\ plane_count = 0

(***************************************************************************)
(* Grouping of edges into planes, process_planes.py.  An edge is a record  *)
(* [type, start, end]; edges are referred to by their index in the list,   *)
(* from 0, as the program's visited set and vertices map do.               *)
(***************************************************************************)

\* process_planes_section, lines 140-151: vertices[edge['start']] and
\* vertices[edge['end']] hold the index of every edge appended.
BuildVertices(edge_list) ==
    LET points == {edge_list[k].start : k \in 1..Len(edge_list)}
                      \cup {edge_list[k].end : k \in 1..Len(edge_list)}
    IN  [point \in points |->
            {k - 1 : k \in {i \in 1..Len(edge_list) :
                               edge_list[i].start = point
                                   \/ edge_list[i].end = point}}]

\* Mutant of ConnectionPoints: only the start point connects.
ConnectionPointsStartOnly(current_edge) ==
    IF current_edge.type \in {"LINE", "ARC", "LWPOLYLINE_SEGMENT"}
    THEN <<current_edge.start>>
    ELSE <<>>

\* Lines 173-176: connection_points of the current edge.
ConnectionPoints(current_edge) ==
    IF current_edge.type \in {"LINE", "ARC", "LWPOLYLINE_SEGMENT"}
    THEN <<current_edge.start, current_edge.end>>
    ELSE <<>>

\* vertices.get(point, [])
VerticesGet(vmap, point) == IF point \in DOMAIN vmap THEN vmap[point] ELSE {}

\* The orders in which a set may be iterated.
Orderings(S) ==
    {f \in [1..Cardinality(S) -> S] :
        \A a \in 1..Cardinality(S) : \A b \in 1..Cardinality(S) :
            a # b => f[a] # f[b]}

\* No grouping of edges in progress.
GroupIdle ==
    /\ edges = <<>>
    /\ vertices_map = <<>>
    /\ visited = {}
    /\ stack = <<>>
    /\ current_plane = <<>>
    /\ edge_idx = 0
    /\ grouped_planes = <<>>

\* No stitching in progress.
StitchIdle ==
    /\ polygon_points = <<>>
    /\ seg_i = 0
    /\ warned = FALSE

\* No contour being built.
ContourIdle ==
    /\ segments = <<>>
    /\ resolution = 0
    /\ contour = [raised |-> FALSE, value |-> <<>>, warned |-> FALSE]

(***************************************************************************)
(* Zone classifier and exposure assigner                                   *)
(***************************************************************************)

\* Default of the parameter tol of is_on_border: 1e-3.
TolBorder == Scale \div 1000

\* is_on_border(point, allowed_area, tol)
is_on_border(point, area, tol) == BoundaryCloserThan(area, point, tol)

\* point_zone(point, allowed_area, hole_poly)
point_zone(point, area, hole) ==
    IF PolygonContains(area, point) THEN 1
    ELSE IF PolygonContains(hole, point) THEN 2
    ELSE 0

\* Mutant of ShutterOfPair: the override taken only when both points are on
\* the border.
ShutterOfPairBothOnBorder(pt1, pt2, area, hole) ==
    LET zone1 == point_zone(pt1, area, hole)
        zone2 == point_zone(pt2, area, hole)
        shutter == IF zone1 = 1 /\ zone2 = 1 THEN "open" ELSE "closed"
    IN  IF is_on_border(pt1, area, TolBorder)
           /\ is_on_border(pt2, area, TolBorder)
        THEN "open"
        ELSE shutter

\* Mutant of ShutterOfPair: open as soon as one point is in zone 1.
ShutterOfPairEitherZone(pt1, pt2, area, hole) ==
    LET zone1 == point_zone(pt1, area, hole)
        zone2 == point_zone(pt2, area, hole)
        shutter == IF zone1 = 1 \/ zone2 = 1 THEN "open" ELSE "closed"
    IN  IF is_on_border(pt1, area, TolBorder)
           \/ is_on_border(pt2, area, TolBorder)
        THEN "open"
        ELSE shutter

\* The shutter state assign_shutter_to_trajectory gives the segment pt1, pt2.
ShutterOfPair(pt1, pt2, area, hole) ==
    LET zone1 == point_zone(pt1, area, hole)
        zone2 == point_zone(pt2, area, hole)
        shutter == IF zone1 = 1 /\ zone2 = 1 THEN "open" ELSE "closed"
    IN  IF is_on_border(pt1, area, TolBorder)
           \/ is_on_border(pt2, area, TolBorder)
        THEN "open"
        ELSE shutter

Segment(p1, p2, sh) == [start |-> p1, end |-> p2, shutter |-> sh]

\* Mutant of assign_shutter_to_trajectory: one segment for each point, the
\* last point paired with itself.
AssignShutterPerPoint(traj, area, hole) ==
    [i \in 1..Len(traj) |->
        LET j == IF i < Len(traj) THEN i + 1 ELSE i
        IN  Segment(traj[i], traj[j],
                    ShutterOfPair(traj[i], traj[j], area, hole))]

\* assign_shutter_to_trajectory(trajectory, allowed_area, hole_poly)
assign_shutter_to_trajectory(traj, area, hole) ==
    [i \in 1..(Len(traj) - 1) |->
        Segment(traj[i], traj[i + 1],
                ShutterOfPair(traj[i], traj[i + 1], area, hole))]

\* No fill job: the region variables of a specification that does not use them.
RegionIdle ==
    /\ trajectory = <<>>
    /\ allowed_area = EmptyPolygon
    /\ hole_poly = EmptyPolygon

\* No raster in progress.
RasterIdle ==
    /\ father_poly = EmptyPolygon
    /\ spacing = 0
    /\ scanlines = <<>>
    /\ scan_i = 0
    /\ line_points = <<>>

(***************************************************************************)
(* Path simplifier                                                         *)
(***************************************************************************)

\* Default of the parameter tol of simplify_trajectory and are_collinear:
\* 1e-5, in squared model units (a cross product is an area).
TolCollinear == (Scale \div 1000) * (Scale \div 100)

\* |a * b - c * d| < tol, computed on the base-WideBase digits of the factors
\* so that no intermediate value leaves the 32-bit integers of the model
\* checker (the program computes in 64-bit floats).  Needs tol <= WideBase^2.
WideBase == 10 * 1000

ProductDifferenceBelow(a, b, c, d, tol) ==
    LET a1 == a \div WideBase   a0 == a % WideBase
        b1 == b \div WideBase   b0 == b % WideBase
        c1 == c \div WideBase   c0 == c % WideBase
        d1 == d \div WideBase   d0 == d % WideBase
        z  == a0 * b0 - c0 * d0
        y  == (a1 * b0 + a0 * b1) - (c1 * d0 + c0 * d1) + (z \div WideBase)
        x  == a1 * b1 - c1 * d1 + (y \div WideBase)
        low == (y % WideBase) * WideBase + (z % WideBase)
    IN  \/ x = 0 /\ low < tol
        \/ x = -1 /\ WideBase * WideBase - low < tol

\* are_collinear(p, q, r, tol)
are_collinear(p, q, r, tol) ==
    LET v1 == <<q[1] - p[1], q[2] - p[2]>>
        v2 == <<r[1] - q[1], r[2] - q[2]>>
    IN  \* abs(v1[0]*v2[1] - v1[1]*v2[0]) < tol
        ProductDifferenceBelow(v1[1], v2[2], v1[2], v2[1], tol)

\* Mutant of SimplifyStep: a merge that forgets to move current_end.
SimplifyStepNoExtend(st, seg, tol) ==
    IF seg.shutter = st.cur.shutter
       /\ are_collinear(st.cur.start, st.cur.end, seg.end, tol)
    THEN st
    ELSE [simplified |-> Append(st.simplified, st.cur), cur |-> seg]

\* Mutant of SimplifyStep: a merge that does not compare the shutter states.
SimplifyStepAnyShutter(st, seg, tol) ==
    IF are_collinear(st.cur.start, st.cur.end, seg.end, tol)
    THEN [st EXCEPT !.cur.end = seg.end]
    ELSE [simplified |-> Append(st.simplified, st.cur), cur |-> seg]

\* Mutant of SimplifyStep: after a split the new current segment starts at
\* the start of the segment just closed.
SimplifyStepSplitFromStart(st, seg, tol) ==
    IF seg.shutter = st.cur.shutter
       /\ are_collinear(st.cur.start, st.cur.end, seg.end, tol)
    THEN [st EXCEPT !.cur.end = seg.end]
    ELSE [simplified |-> Append(st.simplified, st.cur),
          cur |-> [seg EXCEPT !.start = st.cur.start]]

\* One iteration of the loop of simplify_trajectory. st.cur is
\* (current_start, current_end, current_shutter), st.simplified the list so far.
SimplifyStep(st, seg, tol) ==
    IF seg.shutter = st.cur.shutter
       /\ are_collinear(st.cur.start, st.cur.end, seg.end, tol)
    THEN [st EXCEPT !.cur.end = seg.end]
    ELSE [simplified |-> Append(st.simplified, st.cur), cur |-> seg]

RECURSIVE SimplifyLoop(_, _, _, _)
SimplifyLoop(traj, k, st, tol) ==
    IF k > Len(traj)
    THEN st
    ELSE SimplifyLoop(traj, k + 1, SimplifyStep(st, traj[k], tol), tol)

\* simplify_trajectory(traj_with_shutter, tol)
simplify_trajectory(traj, tol) ==
    IF traj = <<>>
    THEN <<>>
    ELSE LET st == SimplifyLoop(traj, 2,
                       [simplified |-> <<>>, cur |-> traj[1]], tol)
         IN  Append(st.simplified, st.cur)

(***************************************************************************)
(* Spiral fill generator (src/Project/GetPlanes/Planes2AB_Sprial.py).      *)
(* Lengths are in thousandths of a coordinate unit and angles in           *)
(* thousandths of a radian.                                                *)
(***************************************************************************)
Milli == Scale \div 900

\* np.pi and 2 * np.pi, in thousandths.
Pi == 3142

TwoPi == 6283

RECURSIVE SqrtBetween(_, _, _)
SqrtBetween(n, lo, hi) ==
    IF lo >= hi
    THEN lo
    ELSE LET mid == (lo + hi + 1) \div 2
         IN  IF mid * mid <= n
             THEN SqrtBetween(n, mid, hi)
             ELSE SqrtBetween(n, lo, mid - 1)

\* np.sqrt(n), rounded down.
Sqrt(n) == SqrtBetween(n, 0, 46340)

\* Point(p).distance(q)
Distance(p, q) ==
    Sqrt((p[1] - q[1]) * (p[1] - q[1]) + (p[2] - q[2]) * (p[2] - q[2]))

\* The sine of x thousandths of a radian, 0 <= x <= Pi, in thousandths
\* (Bhaskara's rational approximation, within 2 thousandths).
SinHalfTurn(x) ==
    LET q == x * (Pi - x)
    IN  (16000 * (q \div 100)) \div ((5 * Pi * Pi - 4 * q) \div 100)

\* np.sin(theta) and np.cos(theta), in thousandths, for theta >= 0.
Sin(t) ==
    LET x == t % TwoPi
    IN  IF x <= Pi THEN SinHalfTurn(x) ELSE 0 - SinHalfTurn(x - Pi)

Cos(t) == Sin(t + Pi \div 2)

\* polygon.centroid of a rectangle.
Centroid(poly) ==
    <<(Bounds(poly).minx + Bounds(poly).maxx) \div 2,
      (Bounds(poly).miny + Bounds(poly).maxy) \div 2>>

\* max of the distances of the exterior's vertices to the centroid.
MaxRadius(poly) ==
    LET b == Bounds(poly)
    IN  SetMax({Distance(<<x, y>>, Centroid(poly)) :
                  x \in {b.minx, b.maxx}, y \in {b.miny, b.maxy}})

\* b = spacing / (2 * np.pi)
SpiralB(sp) == (sp * Milli) \div TwoPi

\* r = b * theta
SpiralRadius(t, sp) == (SpiralB(sp) * t) \div Milli

\* Mutant of SpiralContinues: the spiral walked three pitches past max_r.
SpiralContinuesFar(t, sp, max_r) == SpiralRadius(t, sp) <= max_r + 3 * sp

\* The loop guard: b * theta <= max_r
SpiralContinues(t, sp, max_r) == SpiralRadius(t, sp) <= max_r

\* The sample at angle theta: (cx + r cos(theta), cy + r sin(theta)).
SpiralPoint(center, t, sp) ==
    LET r == SpiralRadius(t, sp)
    IN  <<center[1] + (r * Cos(t)) \div Milli,
          center[2] + (r * Sin(t)) \div Milli>>

\* d_theta = spacing / sqrt((spacing / (2 pi))^2 + r^2)
DTheta(t, sp) ==
    LET r == SpiralRadius(t, sp)
    IN  (sp * Milli) \div Sqrt(SpiralB(sp) * SpiralB(sp) + r * r)

\* No spiral fill in progress.
SpiralIdle ==
    /\ polygon = EmptyPolygon
    /\ theta = 0
    /\ pts = <<>>
    /\ states = <<>>

(***************************************************************************)
(* Trajectory file and program emitter                                     *)
(* (save_trajectory_to_txt, src/Project/GetPlanes/Planes2AB_ShutterTrajec) *)
(* File coordinates are integers in units of 1e-6, the six decimals the    *)
(* file keeps; speeds are in tenths of mm/s.                               *)
(***************************************************************************)

\* "{:.6f}".format(v): the coordinate v rounded to six decimals.
FormatDecimals(v) == (20 * v + 9) \div 18

\* main, line 481 of Establish_Hierarchy.py: constant_z = 0.0
ConstantZ == 0

\* The lines save_trajectory_to_txt writes: two header lines, a blank line
\* and one "De (x1, y1) a (x2, y2): shutter s" line for each segment.
save_trajectory_to_txt(traj, trajectory_color, constant_z) ==
    <<[kind |-> "color", value |-> trajectory_color],
      [kind |-> "z", value |-> constant_z],
      [kind |-> "blank"]>>
    \o [k \in 1..Len(traj) |->
          [kind |-> "De",
           x1 |-> FormatDecimals(traj[k].start[1]),
           y1 |-> FormatDecimals(traj[k].start[2]),
           x2 |-> FormatDecimals(traj[k].end[1]),
           y2 |-> FormatDecimals(traj[k].end[2]),
           shutter |-> traj[k].shutter]]

\* parse_line(line) of a line that starts with "De (".
parse_line(line) ==
    [x1 |-> line.x1, y1 |-> line.y1, x2 |-> line.x2, y2 |-> line.y2,
     shutter |-> line.shutter]

\* COLOR_SPEED_MAPPING, in tenths of mm/s.
COLOR_SPEED_MAPPING ==
    (1 :> 2) @@ (2 :> 4) @@ (3 :> 6) @@ (4 :> 8) @@ (256 :> 10) @@ (5 :> 12)
        @@ (6 :> 14) @@ (7 :> 16) @@ (8 :> 18) @@ (9 :> 20)

\* The color read from the first header line: the digits after the colon, or
\* 6 when the line holds none (a parent without color is written as "None").
HeaderColor(lines) ==
    IF lines[1].kind = "color" /\ lines[1].value # None
    THEN lines[1].value[1]
    ELSE 6

\* COLOR_SPEED_MAPPING.get(color_val, 1)
SpeedOfColor(color_val) ==
    IF color_val \in DOMAIN COLOR_SPEED_MAPPING
    THEN COLOR_SPEED_MAPPING[color_val]
    ELSE 10

\* A LINEAR move to a position relative to the origin; the feed is the
\* program variable $SPEED in every move the emitter writes.
Linear(x, y, z) == [op |-> "LINEAR", x |-> x, y |-> y, z |-> z, f |-> "$SPEED"]

\* The commands of the header, comments dropped.
ProgramHeader ==
    <<[op |-> "#define", name |-> "ShutterClose", value |-> "$DO0.Z = 0"],
      [op |-> "#define", name |-> "ShutterOpen", value |-> "$DO0.Z = 1"],
      [op |-> "DVAR"],
      [op |-> "$SPEED =", value |-> 10],
      [op |-> "MSGCLEAR"],
      [op |-> "ShutterClose"],
      [op |-> "HOME"],
      [op |-> "$numSamples ="],
      [op |-> "$samplingTime ="],
      [op |-> "DATACOLLECT START"],
      [op |-> "ENABLE"],
      [op |-> "VELOCITY ON"],
      [op |-> "ABSOLUTE"],
      [op |-> "LINEAR margin"],
      [op |-> "POSOFFSET SET"]>>

\* The commands of the footer.
ProgramFooter ==
    <<[op |-> "ShutterClosed"], [op |-> "VELOCITY OFF"], [op |-> "MSGDISPLAY"],
      [op |-> "END"]>>

\* Mutant of MotionOfSegment: the state is compared with closed instead of
\* with the state of the previous segment.
MotionOfSegmentFromClosed(segs, k, origin_x, origin_y) ==
    LET switch == IF segs[k].shutter = "closed"
                  THEN <<>>
                  ELSE <<[op |-> "dwell"], [op |-> "ShutterOpen"],
                         [op |-> "dwell"]>>
    IN  switch \o <<Linear(segs[k].x2 - origin_x, segs[k].y2 - origin_y, 0)>>

\* Lines 142-159 for segment k: the shutter commands when the state changes,
\* then the move to the segment's end point.
MotionOfSegment(segs, k, origin_x, origin_y) ==
    LET previous == IF k = 1 THEN "closed" ELSE segs[k - 1].shutter
        switch == IF segs[k].shutter = previous
                  THEN <<>>
                  ELSE IF segs[k].shutter = "open"
                       THEN <<[op |-> "dwell"], [op |-> "ShutterOpen"],
                              [op |-> "dwell"]>>
                       ELSE <<[op |-> "ShutterClose"], [op |-> "dwell"]>>
    IN  switch \o <<Linear(segs[k].x2 - origin_x, segs[k].y2 - origin_y, 0)>>

RECURSIVE MotionBlocks(_, _, _, _)
MotionBlocks(segs, k, origin_x, origin_y) ==
    IF k = 0
    THEN <<>>
    ELSE MotionBlocks(segs, k - 1, origin_x, origin_y)
             \o MotionOfSegment(segs, k, origin_x, origin_y)

\* generate_aerobasic_code(segments, z_coord, speed): the commands of the
\* program, positions in units of 1e-6 relative to the least x and y; raises
\* at line 61 when there is no segment (np.min of an empty array).
generate_aerobasic_code(segs, z_coord, speed) ==
    IF segs = <<>>
    THEN Raised
    ELSE LET origin_x == SetMin({segs[k].x1 : k \in 1..Len(segs)}
                                  \cup {segs[k].x2 : k \in 1..Len(segs)})
             origin_y == SetMin({segs[k].y1 : k \in 1..Len(segs)}
                                  \cup {segs[k].y2 : k \in 1..Len(segs)})
         IN  Returned(ProgramHeader
                        \o <<Linear(segs[1].x1 - origin_x,
                                    segs[1].y1 - origin_y, 0)>>
                        \o MotionBlocks(segs, Len(segs), origin_x, origin_y)
                        \o ProgramFooter)

(***************************************************************************)
(* Code generator of the spiral fill program,                              *)
(* generate_aerobasic_plane_fill_code of Planes2AB_Sprial.py.  The moves   *)
(* carry the sample in the plane's own frame; the change to machine        *)
(* coordinates (plane frame to 3-D, origin offset, division by 1000) does  *)
(* not bear on the order of the commands and is left out.                  *)
(***************************************************************************)

\* The commands of the header, comments dropped.
SpiralProgramHeader ==
    <<[op |-> "#define", name |-> "ShutterClose", value |-> "$DO0.Z = 0"],
      [op |-> "#define", name |-> "ShutterOpen", value |-> "$DO0.Z = 1"],
      [op |-> "DVAR"],
      [op |-> "$SPEED =", value |-> 10],
      [op |-> "MSGCLEAR"],
      [op |-> "ShutterClose"],
      [op |-> "HOME"],
      [op |-> "$numSamples ="],
      [op |-> "$samplingTime ="],
      [op |-> "ENABLE"],
      [op |-> "VELOCITY ON"],
      [op |-> "ABSOLUTE"],
      [op |-> "LINEAR margin"],
      [op |-> "POSOFFSET SET"]>>

\* The commands of the footer.
SpiralProgramFooter ==
    <<[op |-> "VELOCITY OFF"], [op |-> "MSGDISPLAY"], [op |-> "END"]>>

\* Mutant of SampleMotion: the shutter is switched on the first sample only.
SampleMotionFirstOnly(spiral, flags, k) ==
    LET prev_state == IF k = 1 THEN FALSE ELSE flags[1]
        switch == IF flags[k] = prev_state \/ k > 1
                  THEN <<>>
                  ELSE IF flags[k]
                       THEN <<[op |-> "dwell"], [op |-> "ShutterOpen"],
                              [op |-> "dwell"]>>
                       ELSE <<[op |-> "ShutterClose"], [op |-> "dwell"]>>
    IN  switch \o <<Linear(spiral[k][1], spiral[k][2], 0)>>

\* Lines 318-332 for sample k: the shutter commands when the flag differs
\* from the previous sample's (from False for the first), then the move.
SampleMotion(spiral, flags, k) ==
    LET prev_state == IF k = 1 THEN FALSE ELSE flags[k - 1]
        switch == IF flags[k] = prev_state
                  THEN <<>>
                  ELSE IF flags[k]
                       THEN <<[op |-> "dwell"], [op |-> "ShutterOpen"],
                              [op |-> "dwell"]>>
                       ELSE <<[op |-> "ShutterClose"], [op |-> "dwell"]>>
    IN  switch \o <<Linear(spiral[k][1], spiral[k][2], 0)>>

\* Lines 301-335: the commands of one plane, given its spiral, its inside
\* flags and the speed of its color.
PlaneMotion(spiral, flags, speed) ==
    <<[op |-> "$SPEED =", value |-> speed]>>
        \o (IF spiral = <<>>
            THEN <<>>
            ELSE <<Linear(spiral[1][1], spiral[1][2], 0),
                   [op |-> "WAIT MOVEDONE"]>>
                 \o Concat([k \in 1..Min2(Len(spiral), Len(flags)) |->
                              SampleMotion(spiral, flags, k)])
                 \o <<[op |-> "ShutterClose"]>>)

\* main of Planes2AB_ShutterTrajec.py, lines 209-218: the parsed "De (" lines.
ParsedSegments(lines) ==
    LET kept == SelectSeq(lines, LAMBDA l : l.kind = "De")
    IN  [k \in 1..Len(kept) |-> parse_line(kept[k])]

\* No file saved, no program written.
EmitIdle ==
    /\ trajectory_file = <<>>
    /\ program = None

(***************************************************************************)
(* Inputs of the simplifier: segment lists over a few points.  G is a      *)
(* length whose square exceeds the collinearity tolerance; D is a          *)
(* deviation small enough that G * D is below it.                          *)
(***************************************************************************)
MaxSegs == 3

G == Scale \div 200

D == Scale \div 1000

SimplifyPts == {<<0, 0>>, <<G, 0>>, <<2 * G, 0>>, <<G, G>>, <<2 * G, D>>}

\* Start points a non-contiguous list may jump to.
JumpPts == {<<0, 0>>}

ShutterStates == {"open", "closed"}

IsContiguous(traj) ==
    \A k \in 1..(Len(traj) - 1) : traj[k + 1].start = traj[k].end

\* The list of n segments that starts at first, whose k-th segment ends at
\* ends[k] in state shutters[k], and starts where the previous one ended or,
\* where jumps[k], at the jump point instead (a list with a gap).
SegmentList(n, first, ends, shutters, jumps) ==
    [k \in 1..n |->
        Segment(IF k = 1 THEN first
                ELSE IF jumps[k] THEN CHOOSE p \in JumpPts : TRUE
                ELSE ends[k - 1],
                ends[k], shutters[k])]

\* The simplifier's input: every contiguous chain of at most MaxSegs segments
\* over SimplifyPts (the empty list included), and the lists with gaps.
InitSimplify ==
    /\ pc = "shuttered"
    /\ EmitIdle
    /\ GroupIdle
    /\ FillCodeIdle
    /\ CodeIdle
    /\ ArcIdle
    /\ StitchIdle
    /\ SpiralIdle
    /\ ContourIdle
    /\ RegionIdle
    /\ RasterIdle
    /\ HierarchyIdle
    /\ \E n \in 0..MaxSegs :
         \E first \in SimplifyPts :
           \E ends \in [1..n -> SimplifyPts] :
             \E shutters \in [1..n -> ShutterStates] :
               \E jumps \in [1..n -> BOOLEAN] :
                 traj_with_shutter = SegmentList(n, first, ends, shutters, jumps)
    /\ traj_simplified = <<>>
    /\ traj_resimplified = <<>>

\* traj_simplified = simplify_trajectory(traj_with_shutter)
Simplify ==
    /\ pc = "shuttered"
    /\ traj_simplified' = simplify_trajectory(traj_with_shutter, TolCollinear)
    /\ pc' = "simplified"
    /\ UNCHANGED <<groupVars, fillCodeVars, codeVars, arcVars, stitchVars,
                   spiralVars, emitVars, regionVars, rasterVars,
                   hierarchyVars, contourVars, traj_with_shutter,
                   traj_resimplified>>

\* The simplifier applied to its own output.
Resimplify ==
    /\ pc = "simplified"
    /\ traj_resimplified' = simplify_trajectory(traj_simplified, TolCollinear)
    /\ pc' = "resimplified"
    /\ UNCHANGED <<groupVars, fillCodeVars, codeVars, arcVars, stitchVars,
                   spiralVars, emitVars, regionVars, rasterVars,
                   hierarchyVars, contourVars, traj_with_shutter,
                   traj_simplified>>

NextSimplify == Simplify \/ Resimplify

SpecSimplify == InitSimplify /\ [][NextSimplify]_vars

(***************************************************************************)
(* Shutter assignment on a region: a 10 x 10 square parent, with or        *)
(* without a centred 2 x 2 square child, and fill points on, near and away *)
(* from both rings.                                                        *)
(***************************************************************************)
MaxPts == 3

U == Scale

FatherRing == Ring(0, 0, 10 * U, 10 * U)

SonRing == Ring(4 * U, 4 * U, 6 * U, 6 * U)

\* Mutant of MakeAllowedArea: the allowed polygon built without its hole.
MakeAllowedAreaNoHole(father_coords, son_coords) ==
    Polygon(father_coords, <<>>)

\* Step 6 of main: the allowed polygon and the hole polygon, from the parent's
\* contour and the child's (son_coords is the empty list when there is none).
MakeAllowedArea(father_coords, son_coords) ==
    IF son_coords # <<>>
    THEN Polygon(father_coords, son_coords)
    ELSE Polygon(father_coords, <<>>)

MakeHolePoly(son_coords) ==
    IF son_coords # <<>>
    THEN Polygon(son_coords[1], <<>>)
    ELSE EmptyPolygon

\* Half the border tolerance; and two offsets d for which the corner point
\* (-d, -d) is farther (FarD) and closer (NearD) than the tolerance from the
\* corner (0, 0) while each coordinate is within it.
HalfTol == TolBorder \div 2

FarD == (TolBorder * 7) \div 9

NearD == (TolBorder * 2) \div 3

ShutterPts ==
    {<<x, 5 * U>> : x \in {0 - U, 0 - HalfTol, 0, HalfTol, TolBorder, 2 * U,
                           4 * U - HalfTol, 4 * U, 4 * U + HalfTol, 5 * U}}
        \cup {<<0 - FarD, 0 - FarD>>, <<0 - NearD, 0 - NearD>>}

InitShutter ==
    /\ pc = "points"
    /\ EmitIdle
    /\ GroupIdle
    /\ FillCodeIdle
    /\ CodeIdle
    /\ ArcIdle
    /\ StitchIdle
    /\ SpiralIdle
    /\ ContourIdle
    /\ RasterIdle
    /\ HierarchyIdle
    /\ \E n \in 0..MaxPts : trajectory \in [1..n -> ShutterPts]
    /\ \E son_coords \in {<<>>, <<SonRing>>} :
         /\ allowed_area = MakeAllowedArea(FatherRing, son_coords)
         /\ hole_poly = MakeHolePoly(son_coords)
    /\ traj_with_shutter = <<>>
    /\ traj_simplified = <<>>
    /\ traj_resimplified = <<>>

\* traj_with_shutter = assign_shutter_to_trajectory(trajectory, allowed_area,
\*                                                  hole_poly)
AssignShutter ==
    /\ pc = "points"
    /\ traj_with_shutter'
         = assign_shutter_to_trajectory(trajectory, allowed_area, hole_poly)
    /\ pc' = "shuttered"
    /\ UNCHANGED <<groupVars, fillCodeVars, codeVars, arcVars, stitchVars,
                   spiralVars, emitVars, regionVars, rasterVars,
                   hierarchyVars, contourVars, traj_simplified,
                   traj_resimplified>>

\* Colors of the parent plane: three indices, one of them not in the speed
\* table, and a parent without color.
TrajectoryColors == {Some(6), Some(3), Some(77), None}

\* main, line 509: save_trajectory_to_txt(traj_simplified, ...)
SaveTrajectory ==
    /\ pc = "simplified"
    /\ \E father_color \in TrajectoryColors :
         trajectory_file'
           = save_trajectory_to_txt(traj_simplified, father_color, ConstantZ)
    /\ pc' = "saved"
    /\ UNCHANGED <<groupVars, fillCodeVars, codeVars, arcVars, stitchVars,
                   spiralVars, program, regionVars, rasterVars, simplifyVars,
                   hierarchyVars,
                   contourVars>>

\* main of Planes2AB_ShutterTrajec.py, lines 222-224: no segment in the file,
\* the emitter returns without writing a program.
EmitNothing ==
    /\ pc = "saved"
    /\ ParsedSegments(trajectory_file) = <<>>
    /\ pc' = "no_program"
    /\ UNCHANGED <<groupVars, fillCodeVars, codeVars, arcVars, stitchVars,
                   spiralVars, emitVars, regionVars, rasterVars, simplifyVars,
                   hierarchyVars,
                   contourVars>>

\* main of Planes2AB_ShutterTrajec.py, lines 226-232: the program is written.
EmitProgram ==
    /\ pc = "saved"
    /\ ParsedSegments(trajectory_file) # <<>>
    /\ LET code_lines ==
             generate_aerobasic_code(
                 ParsedSegments(trajectory_file), trajectory_file[2].value,
                 SpeedOfColor(HeaderColor(trajectory_file)))
       IN  IF code_lines.raised
           THEN program' = program /\ pc' = "raised"
           ELSE program' = Some(code_lines.value) /\ pc' = "emitted"
    /\ UNCHANGED <<groupVars, fillCodeVars, codeVars, arcVars, stitchVars,
                   spiralVars, trajectory_file, regionVars, rasterVars,
                   simplifyVars,
                   hierarchyVars, contourVars>>

NextShutter ==
    AssignShutter \/ Simplify \/ SaveTrajectory \/ EmitNothing \/ EmitProgram

SpecShutter == InitShutter /\ [][NextShutter]_vars

(***************************************************************************)
(* Scanline raster generator                                               *)
(***************************************************************************)

\* An 8-vertex ring: the rectangle from (x0, y0) to (x1, y1) with a notch cut
\* from its top edge, between x = nx0 and x = nx1, down to y = ny.
NotchedRing(x0, y0, x1, y1, nx0, nx1, ny) ==
    [minx |-> x0, miny |-> y0, maxx |-> x1, maxy |-> y1,
     notch |-> [minx |-> nx0, maxx |-> nx1, miny |-> ny]]

\* The scanline at height y crosses the notch of the polygon's ring.
CrossesNotch(poly, y) ==
    /\ "notch" \in DOMAIN Bounds(poly)
    /\ y > Bounds(poly).notch.miny

\* A 5-vertex ring: the rectangle from (x0, y0) to (x1, y1) with a peak above
\* the middle of its top edge, at height py.
PeakedRing(x0, y0, x1, y1, py) ==
    [minx |-> x0, miny |-> y0, maxx |-> x1, maxy |-> py,
     peak |-> [base |-> y1, x |-> (x0 + x1) \div 2]]

\* The scanline at height y runs above the rectangular part of a peaked ring.
AbovePeakBase(poly, y) ==
    /\ "peak" \in DOMAIN Bounds(poly)
    /\ y > Bounds(poly).peak.base

\* The scanline at height y meets the polygon in the peak's vertex only.
TouchesPeak(poly, y) ==
    /\ "peak" \in DOMAIN Bounds(poly)
    /\ y = Bounds(poly).maxy

\* generate_scanlines(poly, spacing): the heights y = miny, miny + spacing, ...
\* while y <= maxy; each scanline runs from (minx, y) to (maxx, y).
generate_scanlines(poly, sp) ==
    LET b == Bounds(poly)
    IN  [k \in 1..((b.maxy - b.miny) \div sp + 1) |-> b.miny + (k - 1) * sp]

\* The scanline at height y lies along an edge of the polygon.
OnPolygonEdge(poly, y) == y = Bounds(poly).miny \/ y = Bounds(poly).maxy

\* plane_poly.intersection(line) for the scanline at height y: the list of
\* line segments <<a, b>> of the intersection (a LineString is one segment, a
\* MultiLineString its parts along the scanline), empty when the scanline
\* misses the polygon or meets it in a single point (the intersection is
\* then a Point, of neither type).  reversed tells whether the
\* library returned the segment against the scanline's direction.
Intersection(poly, y, reversed) ==
    LET b == Bounds(poly)
    IN  IF y < b.miny \/ y > b.maxy \/ TouchesPeak(poly, y)
        THEN <<>>
        ELSE IF CrossesNotch(poly, y)
             THEN <<<<<<b.minx, y>>, <<b.notch.minx, y>>>>,
                    <<<<b.notch.maxx, y>>, <<b.maxx, y>>>>>>
             ELSE IF AbovePeakBase(poly, y)
             THEN LET \* half width and height of the peak, in whole units
                      half == (b.peak.x - b.minx) \div U
                      rise == (b.maxy - b.peak.base) \div U
                      inset == (half * (y - b.peak.base)) \div rise
                  IN  <<<<<<b.minx + inset, y>>, <<b.maxx - inset, y>>>>>>
             ELSE IF reversed
                  THEN <<<<<<b.maxx, y>>, <<b.minx, y>>>>>>
                  ELSE <<<<<<b.minx, y>>, <<b.maxx, y>>>>>>

\* The orientations the library may return: a scanline through the interior
\* keeps its direction; one that lies along an edge of the polygon may come
\* back in the direction of that edge (what line 263 of the program repairs
\* for the first scanline).
Orientations(poly, y) == IF OnPolygonEdge(poly, y) THEN BOOLEAN ELSE {FALSE}

\* max(2, int(np.ceil(seg.length / spacing)))
NumSamples(seg, sp) ==
    Max2(2, (Abs(seg[2][1] - seg[1][1]) + sp - 1) \div sp)

\* seg.interpolate(t, normalized=True) for the k-th of n values t of
\* np.linspace(0, 1, n), k = 0..n-1 (whole numbers for the inputs drawn below).
Interpolate(seg, k, n) ==
    <<seg[1][1] + ((seg[2][1] - seg[1][1]) * k) \div (n - 1), seg[1][2]>>

\* Lines 258-262: the samples of one segment of scanline i.
SegmentSamples(seg, sp, i) ==
    LET n == NumSamples(seg, sp)
        samples == [k \in 1..n |-> Interpolate(seg, k - 1, n)]
    IN  IF i % 2 = 1 THEN Reverse(samples) ELSE samples

\* Lines 256-264: the points of scanline i, given the segments of its
\* intersection with the polygon.
LinePoints(segs, sp, i) ==
    LET joined ==
            Concat([k \in 1..Len(segs) |-> SegmentSamples(segs[k], sp, i)])
    IN  IF i = 0 /\ joined # <<>>
           /\ joined[1][1] > joined[Len(joined)][1]
        THEN Reverse(joined)
        ELSE joined

\* inter.is_empty for the scanline at height y.
IsEmpty(poly, y) == y < Bounds(poly).miny \/ y > Bounds(poly).maxy

\* Lines 247-267: the trajectory after scanline i, whose intersection with the
\* polygon has the line segments inter and is empty or not.
TrajectoryAfterLine(traj, is_empty, inter, sp, i) ==
    IF is_empty
    THEN traj
    ELSE (IF traj # <<>> THEN Append(traj, traj[Len(traj)]) ELSE traj)
             \o LinePoints(inter, sp, i)

(***************************************************************************)
(* The fill job of main, steps 6 and 7: raster over the parent polygon and  *)
(* shutter assignment against the allowed area, on three parent rectangles *)
(* with and without a centred child and two spacings.                      *)
(***************************************************************************)

\* main: spacing = VOXEL_DIAMETER * (1 - OVERLAP) = 2 * (1 - 0.5) = 1.
MainSpacing == U

\* The child of a parent ring: a 2 x 2 square at its centre.
CentredSon(father) ==
    LET cx == (father.minx + father.maxx) \div 2
        cy == (father.miny + father.maxy) \div 2
    IN  Ring(cx - U, cy - U, cx + U, cy + U)

RasterFathers ==
    {FatherRing, Ring(0, 0, 4 * U, 10 * U), Ring(0, 0, 10 * U, 4 * U)}

RasterSpacings == {MainSpacing, 2 * U}

InitRaster ==
    /\ pc = "job"
    /\ EmitIdle
    /\ GroupIdle
    /\ FillCodeIdle
    /\ CodeIdle
    /\ ArcIdle
    /\ StitchIdle
    /\ SpiralIdle
    /\ ContourIdle
    /\ HierarchyIdle
    /\ \E father \in RasterFathers :
         \E son_coords \in {<<>>, <<CentredSon(father)>>} :
           /\ allowed_area = MakeAllowedArea(father, son_coords)
           /\ hole_poly = MakeHolePoly(son_coords)
           /\ father_poly = Polygon(father, <<>>)
    /\ spacing \in RasterSpacings
    /\ trajectory = <<>>
    /\ scanlines = <<>>
    /\ scan_i = 0
    /\ line_points = <<>>
    /\ traj_with_shutter = <<>>
    /\ traj_simplified = <<>>
    /\ traj_resimplified = <<>>

\* create_trajectory_points, line 245-246.
StartRaster ==
    /\ pc = "job"
    /\ scanlines' = generate_scanlines(father_poly, spacing)
    /\ trajectory' = <<>>
    /\ scan_i' = 0
    /\ pc' = "raster"
    /\ UNCHANGED <<groupVars, fillCodeVars, codeVars, arcVars, stitchVars,
                   spiralVars, emitVars, allowed_area, hole_poly, father_poly,
                   spacing,
                   line_points, simplifyVars, hierarchyVars, contourVars>>

\* create_trajectory_points, one iteration of the loop over the scanlines.
ScanlineStep ==
    /\ pc = "raster"
    /\ scan_i < Len(scanlines)
    /\ \E reversed \in Orientations(father_poly, scanlines[scan_i + 1]) :
         LET inter ==
                 Intersection(father_poly, scanlines[scan_i + 1], reversed)
             is_empty == IsEmpty(father_poly, scanlines[scan_i + 1])
         IN  /\ trajectory'
                   = TrajectoryAfterLine(trajectory, is_empty, inter, spacing,
                                         scan_i)
             /\ line_points' = LinePoints(inter, spacing, scan_i)
    /\ scan_i' = scan_i + 1
    /\ UNCHANGED <<groupVars, fillCodeVars, codeVars, arcVars, stitchVars,
                   spiralVars, emitVars, pc, allowed_area, hole_poly,
                   father_poly, spacing,
                   scanlines, simplifyVars, hierarchyVars, contourVars>>

\* create_trajectory_points, line 268: return trajectory.
ReturnTrajectory ==
    /\ pc = "raster"
    /\ scan_i = Len(scanlines)
    /\ pc' = "points"
    /\ UNCHANGED <<groupVars, fillCodeVars, codeVars, arcVars, stitchVars,
                   spiralVars, emitVars, regionVars, rasterVars, simplifyVars,
                   hierarchyVars,
                   contourVars>>

NextRaster == StartRaster \/ ScanlineStep \/ ReturnTrajectory \/ AssignShutter

SpecRaster == InitRaster /\ [][NextRaster]_vars

(***************************************************************************)
(* The raster generator alone, create_trajectory_points, on squares and on *)
(* a notched (U-shaped) polygon whose upper scanlines meet it in two       *)
(* segments.  No scanline runs along the notch's bottom or the top of the  *)
(* notched polygon.                                                        *)
(***************************************************************************)
ScanFathers ==
    RasterFathers
        \cup {Ring(0, 0, 3 * U, 3 * U),
              NotchedRing(0, 0, 6 * U, 3 * U + U \div 2,
                          2 * U, 4 * U, U + U \div 2),
              NotchedRing(0, 0, 10 * U, 5 * U + U \div 2,
                          4 * U, 6 * U, 2 * U + U \div 2),
              PeakedRing(0, 0, 4 * U, 2 * U, 3 * U),
              PeakedRing(0, 0, 4 * U, 2 * U, 4 * U)}

ScanSpacings == {MainSpacing, 2 * U}

InitScan ==
    /\ pc = "job"
    /\ EmitIdle
    /\ GroupIdle
    /\ FillCodeIdle
    /\ CodeIdle
    /\ ArcIdle
    /\ StitchIdle
    /\ SpiralIdle
    /\ ContourIdle
    /\ HierarchyIdle
    /\ allowed_area = EmptyPolygon
    /\ hole_poly = EmptyPolygon
    /\ \E father \in ScanFathers : father_poly = Polygon(father, <<>>)
    /\ spacing \in ScanSpacings
    /\ trajectory = <<>>
    /\ scanlines = <<>>
    /\ scan_i = 0
    /\ line_points = <<>>
    /\ traj_with_shutter = <<>>
    /\ traj_simplified = <<>>
    /\ traj_resimplified = <<>>

NextScan == StartRaster \/ ScanlineStep \/ ReturnTrajectory

SpecScan == InitScan /\ [][NextScan]_vars

(***************************************************************************)
(* The spiral fill of one polygon: generate_spiral_fill on rectangles, one *)
(* state for each turn of its loop.  The program runs on its own, so every *)
(* enabled step is eventually taken.                                       *)
(***************************************************************************)
SpiralPolygons ==
    {Ring(0, 0, 4 * Milli, 4 * Milli),
     Ring(0, 0, 6 * Milli, 6 * Milli),
     Ring(0 - 2 * Milli, 0, 2 * Milli, 8 * Milli),
     Ring(0, 0, 3 * Milli, 4 * Milli)}

SpiralSpacings == {Milli, 2 * Milli}

InitSpiral ==
    /\ pc = "spiral_job"
    /\ EmitIdle
    /\ GroupIdle
    /\ FillCodeIdle
    /\ CodeIdle
    /\ ArcIdle
    /\ StitchIdle
    /\ ContourIdle
    /\ HierarchyIdle
    /\ RegionIdle
    /\ father_poly = EmptyPolygon
    /\ scanlines = <<>>
    /\ scan_i = 0
    /\ line_points = <<>>
    /\ traj_with_shutter = <<>>
    /\ traj_simplified = <<>>
    /\ traj_resimplified = <<>>
    /\ \E ring \in SpiralPolygons : polygon = Polygon(ring, <<>>)
    /\ spacing \in SpiralSpacings
    /\ theta = 0
    /\ pts = <<>>
    /\ states = <<>>

\* generate_spiral_fill, lines 144-151.
StartSpiral ==
    /\ pc = "spiral_job"
    /\ pts' = <<>>
    /\ states' = <<>>
    /\ theta' = 0
    /\ pc' = "spiral"
    /\ UNCHANGED <<groupVars, fillCodeVars, codeVars, arcVars, stitchVars,
                   polygon, emitVars, regionVars, rasterVars, simplifyVars,
                   hierarchyVars, contourVars>>

\* generate_spiral_fill, lines 153-165: one turn of the loop.
SpiralStep ==
    /\ pc = "spiral"
    /\ SpiralContinues(theta, spacing, MaxRadius(polygon))
    /\ LET point == SpiralPoint(Centroid(polygon), theta, spacing)
       IN  /\ pts' = Append(pts, point)
           /\ states' = Append(states, PolygonContains(polygon, point))
    /\ theta' = theta + DTheta(theta, spacing)
    /\ UNCHANGED <<groupVars, fillCodeVars, codeVars, arcVars, stitchVars, pc,
                   polygon, emitVars, regionVars, rasterVars, simplifyVars,
                   hierarchyVars, contourVars>>

\* generate_spiral_fill, line 167: the loop is left, pts and states returned.
ReturnSpiral ==
    /\ pc = "spiral"
    /\ ~ SpiralContinues(theta, spacing, MaxRadius(polygon))
    /\ pc' = "spiral_done"
    /\ UNCHANGED <<groupVars, fillCodeVars, codeVars, arcVars, stitchVars,
                   spiralVars, emitVars, regionVars, rasterVars, simplifyVars,
                   hierarchyVars, contourVars>>

NextSpiral == StartSpiral \/ SpiralStep \/ ReturnSpiral

SpecSpiral == InitSpiral /\ [][NextSpiral]_vars /\ WF_vars(NextSpiral)

(***************************************************************************)
(* The spiral fill program: for each plane in turn the spiral is generated *)
(* and its commands are added; the file is written after the last plane.   *)
(***************************************************************************)
MaxSpiralPlanes == 2

\* Colors of the planes: two of the speed table and one that is not in it.
SpiralColors == {3, 6, 77}

InitSpiralProgram == InitSpiral

\* Lines 296-335: the commands of the plane are added to motion_blocks.
GeneratePlaneMotion ==
    /\ pc = "spiral_done"
    /\ \E color_val \in SpiralColors :
          motion_blocks'
            = motion_blocks
                \o PlaneMotion(pts, states, SpeedOfColor(color_val))
    /\ plane_count' = plane_count + 1
    /\ pc' = "plane_done"
    /\ UNCHANGED <<groupVars, codeVars, arcVars, stitchVars, spiralVars,
                   emitVars,
                   regionVars, rasterVars, simplifyVars, hierarchyVars,
                   contourVars>>

\* Line 240: the loop goes on to the next plane.
NextPlane ==
    /\ pc = "plane_done"
    /\ plane_count < MaxSpiralPlanes
    /\ \E ring \in SpiralPolygons : polygon' = Polygon(ring, <<>>)
    /\ theta' = 0
    /\ pts' = <<>>
    /\ states' = <<>>
    /\ pc' = "spiral_job"
    /\ UNCHANGED <<groupVars, fillCodeVars, codeVars, arcVars, stitchVars,
                   emitVars,
                   regionVars, rasterVars, simplifyVars, hierarchyVars,
                   contourVars>>

\* Lines 347-350: the program is written after the last plane.
WriteSpiralProgram ==
    /\ pc = "plane_done"
    /\ program' = Some(SpiralProgramHeader \o motion_blocks
                           \o SpiralProgramFooter)
    /\ pc' = "spiral_written"
    /\ UNCHANGED <<groupVars, fillCodeVars, codeVars, arcVars, stitchVars,
                   spiralVars,
                   trajectory_file, regionVars, rasterVars, simplifyVars,
                   hierarchyVars, contourVars>>

NextSpiralProgram ==
    \/ StartSpiral
    \/ SpiralStep
    \/ ReturnSpiral
    \/ GeneratePlaneMotion
    \/ NextPlane
    \/ WriteSpiralProgram

SpecSpiralProgram == InitSpiralProgram /\ [][NextSpiralProgram]_vars

(***************************************************************************)
(* Hierarchy detection of main, steps 1 and 2, on lists of planes whose    *)
(* vertices are the corners of squares (or too few to make a polygon).     *)
(***************************************************************************)
MaxPlanes == 3

\* Corners of the rectangle from (x0, y0) to (x1, y1), in ring order.
Corners(x0, y0, x1, y1) == <<<<x0, y0>>, <<x1, y0>>, <<x1, y1>>, <<x0, y1>>>>

\* Squares centred at the origin, of side 10, 6 and 2; a square of side 2 that
\* touches the big square's ring from inside; a square across the big square's
\* ring; and a plane with two vertices only.
PlaneVertices ==
    {Corners(0 - 5 * U, 0 - 5 * U, 5 * U, 5 * U),
     Corners(0 - 3 * U, 0 - 3 * U, 3 * U, 3 * U),
     Corners(0 - U, 0 - U, U, U),
     Corners(3 * U, 0 - U, 5 * U, U),
     Corners(4 * U, 0 - U, 6 * U, U),
     <<<<0, 0>>, <<U, 0>>>>}

InitHierarchy ==
    /\ pc = "planes"
    /\ EmitIdle
    /\ GroupIdle
    /\ FillCodeIdle
    /\ CodeIdle
    /\ ArcIdle
    /\ StitchIdle
    /\ SpiralIdle
    /\ ContourIdle
    /\ RegionIdle
    /\ RasterIdle
    /\ traj_with_shutter = <<>>
    /\ traj_simplified = <<>>
    /\ traj_resimplified = <<>>
    /\ \E n \in 0..MaxPlanes :
         \E vs \in [1..n -> PlaneVertices] :
           planes_info = [k \in 1..n |-> extract_plane_info(vs[k])]
    /\ hierarchy = <<>>
    /\ father_idx = NoIndex
    /\ son_idx = NoIndex

\* main, lines 420-422: no plane, nothing to do.
NoPlanes ==
    /\ pc = "planes"
    /\ planes_info = <<>>
    /\ pc' = "done"
    /\ UNCHANGED <<groupVars, fillCodeVars, codeVars, arcVars, stitchVars,
                   spiralVars, emitVars, regionVars, rasterVars, simplifyVars,
                   hierarchyVars,
                   contourVars>>

\* main, line 425: hierarchy = detect_hierarchy(planes_info)
DetectHierarchy ==
    /\ pc = "planes"
    /\ planes_info # <<>>
    /\ hierarchy' = detect_hierarchy(planes_info)
    /\ pc' = "hierarchy"
    /\ UNCHANGED <<groupVars, fillCodeVars, codeVars, arcVars, stitchVars,
                   spiralVars, emitVars, regionVars, rasterVars, simplifyVars,
                   contourVars, planes_info,
                   father_idx, son_idx>>

\* main, lines 426-432: the first detected pair, or the first plane alone.
SelectParent ==
    /\ pc = "hierarchy"
    /\ IF hierarchy # <<>>
       THEN father_idx' = hierarchy[1][1] /\ son_idx' = hierarchy[1][2]
       ELSE father_idx' = 0 /\ son_idx' = NoIndex
    /\ pc' = "selected"
    /\ UNCHANGED <<groupVars, fillCodeVars, codeVars, arcVars, stitchVars,
                   spiralVars, emitVars, regionVars, rasterVars, simplifyVars,
                   contourVars, planes_info,
                   hierarchy>>

NextHierarchy == NoPlanes \/ DetectHierarchy \/ SelectParent

SpecHierarchy == InitHierarchy /\ [][NextHierarchy]_vars

(***************************************************************************)
(* Contour building on lists of segments drawn from a pool: the sides of a *)
(* triangle in both directions, sides that miss a vertex by less than, and *)
(* by exactly, the point tolerance, lines with a missing end or no end at  *)
(* all, half-circle arcs, an arc without angles and an arc without centre. *)
(***************************************************************************)
MaxContourSegs == 3

Pt(x, y) == <<x, y, 0>>

LineSegment(a, b) ==
    [tipo |-> "LINE", desde |-> a, hasta |-> b,
     centro |-> None, radio |-> None, angulos |-> None]

ArcSegment(a, b, c, r, angles) ==
    [tipo |-> "ARC", desde |-> a, hasta |-> b,
     centro |-> c, radio |-> r, angulos |-> angles]

HalfU == U \div 2

SegmentPool ==
    {LineSegment(Some(Pt(0, 0)), Some(Pt(U, 0))),
     LineSegment(Some(Pt(U, 0)), Some(Pt(0, 0))),
     LineSegment(Some(Pt(U, 0)), Some(Pt(U, U))),
     LineSegment(Some(Pt(U, U)), Some(Pt(U, 0))),
     LineSegment(Some(Pt(0, 0)), Some(Pt(U, U))),
     LineSegment(Some(Pt(U, U)), Some(Pt(0, 0))),
     LineSegment(Some(Pt(U + TolPoint \div 2, 0)), Some(Pt(U, U))),
     LineSegment(Some(Pt(U + TolPoint, 0)), Some(Pt(U, U))),
     LineSegment(Some(Pt(0, 0)), None),
     LineSegment(None, None),
     ArcSegment(Some(Pt(U, 0)), Some(Pt(0, 0)),
                Some(Pt(HalfU, 0)), Some(HalfU), Some(<<0, 180>>)),
     ArcSegment(Some(Pt(0, 0)), Some(Pt(U, 0)),
                Some(<<HalfU, 0>>), Some(HalfU), Some(<<180, 0>>)),
     ArcSegment(Some(Pt(U, U)), Some(Pt(0, 0)), None, None, None),
     ArcSegment(Some(Pt(U, 0)), Some(Pt(0, 0)),
                None, Some(HalfU), Some(<<0, 180>>))}

\* Resolutions for which the angles interpolated on a half circle are
\* multiples of 90 degrees.
Resolutions == {1, 2}

InitContour ==
    /\ pc = "segments"
    /\ EmitIdle
    /\ GroupIdle
    /\ FillCodeIdle
    /\ CodeIdle
    /\ ArcIdle
    /\ StitchIdle
    /\ SpiralIdle
    /\ RegionIdle
    /\ RasterIdle
    /\ HierarchyIdle
    /\ traj_with_shutter = <<>>
    /\ traj_simplified = <<>>
    /\ traj_resimplified = <<>>
    /\ \E n \in 0..MaxContourSegs : segments \in [1..n -> SegmentPool]
    /\ resolution \in Resolutions
    /\ contour = [raised |-> FALSE, value |-> <<>>, warned |-> FALSE]

\* build_polygon_segments(segments, resolution) returns a contour.
BuildPolygon ==
    /\ pc = "segments"
    /\ ~ build_polygon_segments(segments, resolution).raised
    /\ contour' = build_polygon_segments(segments, resolution)
    /\ pc' = "contour"
    /\ UNCHANGED <<groupVars, fillCodeVars, codeVars, arcVars, stitchVars,
                   spiralVars, emitVars, regionVars, rasterVars, simplifyVars,
                   hierarchyVars,
                   segments, resolution>>

\* build_polygon_segments(segments, resolution) raises.
BuildPolygonRaises ==
    /\ pc = "segments"
    /\ build_polygon_segments(segments, resolution).raised
    /\ contour' = build_polygon_segments(segments, resolution)
    /\ pc' = "raised"
    /\ UNCHANGED <<groupVars, fillCodeVars, codeVars, arcVars, stitchVars,
                   spiralVars, emitVars, regionVars, rasterVars, simplifyVars,
                   hierarchyVars,
                   segments, resolution>>

NextContour == BuildPolygon \/ BuildPolygonRaises

SpecContour == InitContour /\ [][NextContour]_vars

(***************************************************************************)
(* The loop of build_polygon_segments one segment at a time, on the same   *)
(* segment lists.                                                          *)
(***************************************************************************)
InitStitch ==
    /\ pc = "stitching"
    /\ EmitIdle
    /\ GroupIdle
    /\ FillCodeIdle
    /\ CodeIdle
    /\ ArcIdle
    /\ SpiralIdle
    /\ RegionIdle
    /\ RasterIdle
    /\ HierarchyIdle
    /\ traj_with_shutter = <<>>
    /\ traj_simplified = <<>>
    /\ traj_resimplified = <<>>
    /\ \E n \in 0..MaxContourSegs : segments \in [1..n -> SegmentPool]
    /\ resolution \in Resolutions
    /\ contour = [raised |-> FALSE, value |-> <<>>, warned |-> FALSE]
    /\ polygon_points = <<>>
    /\ seg_i = 0
    /\ warned = FALSE

\* Lines 201-215: the next segment's points are stitched to the contour.
StitchStep ==
    /\ pc = "stitching"
    /\ seg_i < Len(segments)
    /\ LET got == get_segment_points(segments[seg_i + 1], resolution)
       IN  /\ ~ got.raised
           /\ LET st == StitchSegment([points |-> polygon_points,
                                       warned |-> warned], got.value)
              IN  /\ polygon_points' = st.points
                  /\ warned' = st.warned
    /\ seg_i' = seg_i + 1
    /\ UNCHANGED <<groupVars, fillCodeVars, codeVars, arcVars, pc, spiralVars,
                   emitVars, regionVars, rasterVars,
                   simplifyVars, hierarchyVars, contourVars>>

\* Line 202: get_segment_points raises on the next segment.
StitchRaises ==
    /\ pc = "stitching"
    /\ seg_i < Len(segments)
    /\ get_segment_points(segments[seg_i + 1], resolution).raised
    /\ contour' = [raised |-> TRUE, value |-> <<>>, warned |-> FALSE]
    /\ pc' = "raised"
    /\ UNCHANGED <<groupVars, fillCodeVars, codeVars, arcVars, stitchVars,
                   spiralVars, emitVars, regionVars, rasterVars,
                   simplifyVars, hierarchyVars, segments, resolution>>

\* Lines 216-218: the contour is closed and returned, or line 216 raises.
CloseStep ==
    /\ pc = "stitching"
    /\ seg_i = Len(segments)
    /\ LET closed == CloseContour(polygon_points)
       IN  /\ contour' = [raised |-> closed.raised, value |-> closed.value,
                          warned |-> warned]
           /\ pc' = IF closed.raised THEN "raised" ELSE "contour"
    /\ UNCHANGED <<groupVars, fillCodeVars, codeVars, arcVars, stitchVars,
                   spiralVars, emitVars, regionVars, rasterVars,
                   simplifyVars, hierarchyVars, segments, resolution>>

NextStitch == StitchStep \/ StitchRaises \/ CloseStep

SpecStitch == InitStitch /\ [][NextStitch]_vars

(***************************************************************************)
(* Arc interpolation: one arc of a circle, given by its angles in degrees  *)
(* and by the points at these angles, interpolated by the contour builder  *)
(* or by the fill programs.                                                *)
(***************************************************************************)
ArcCenter == Pt(U, U)

ArcRadius == HalfU

\* The point of the circle at an angle that is a multiple of 90 degrees.
PointAtAngle(angle) ==
    <<ArcCenter[1] + ArcRadius * Cos90(angle % 360),
      ArcCenter[2] + ArcRadius * Sin90(angle % 360),
      ArcCenter[3]>>

ArcAngleValues == {0, 90, 180, 270, 360}

ArcResolutions == {1, 2, 4}

ExtrusionZs == {-1, 0, 1}

\* Arcs whose interpolated angles are multiples of 90 degrees.
InitArc ==
    /\ pc = "arc_job"
    /\ EmitIdle
    /\ GroupIdle
    /\ FillCodeIdle
    /\ CodeIdle
    /\ StitchIdle
    /\ SpiralIdle
    /\ RegionIdle
    /\ RasterIdle
    /\ HierarchyIdle
    /\ ContourIdle
    /\ traj_with_shutter = <<>>
    /\ traj_simplified = <<>>
    /\ traj_resimplified = <<>>
    /\ arc_resolution \in ArcResolutions
    /\ \E start_angle \in ArcAngleValues, end_angle \in ArcAngleValues :
          /\ (end_angle - start_angle) % (90 * arc_resolution) = 0
          /\ arc = ArcSegment(Some(PointAtAngle(start_angle)),
                              Some(PointAtAngle(end_angle)),
                              Some(ArcCenter), Some(ArcRadius),
                              Some(<<start_angle, end_angle>>))
    /\ extrusion_z \in ExtrusionZs
    /\ arc_points = <<>>
    /\ arc_angles = <<>>

\* Establish_Hierarchy.py: interpolate_arc(segment, resolution).
InterpolateContourArc ==
    /\ pc = "arc_job"
    /\ arc_points' = interpolate_arc(arc, arc_resolution).value
    /\ arc_angles' = ArcAngles(arc, arc_resolution)
    /\ pc' = "contour_arc"
    /\ UNCHANGED <<groupVars, fillCodeVars, codeVars, arc, arc_resolution,
                   extrusion_z, stitchVars, spiralVars,
                   emitVars, regionVars, rasterVars, simplifyVars,
                   hierarchyVars, contourVars>>

\* Planes2AB_Raster.py and Planes2AB_Sprial.py:
\* interpolate_arc(e, ARC_RESOLUTION, extrusion).
InterpolateFillArc ==
    /\ pc = "arc_job"
    /\ LET got == interpolate_arc_fill(arc, arc_resolution, extrusion_z)
       IN  /\ arc_points' = got.points
           /\ arc_angles' = got.angles
    /\ pc' = "fill_arc"
    /\ UNCHANGED <<groupVars, fillCodeVars, codeVars, arc, arc_resolution,
                   extrusion_z, stitchVars, spiralVars,
                   emitVars, regionVars, rasterVars, simplifyVars,
                   hierarchyVars, contourVars>>

NextArc == InterpolateContourArc \/ InterpolateFillArc

SpecArc == InitArc /\ [][NextArc]_vars

(***************************************************************************)
(* The code generator alone, generate_aerobasic_code, on lists of parsed   *)
(* segments (x1, y1, x2, y2, shutter) in units of 1e-6.                    *)
(***************************************************************************)
MaxCodeSegs == 3

CodeSegment(x1, y1, x2, y2, shutter) ==
    [x1 |-> x1, y1 |-> y1, x2 |-> x2, y2 |-> y2, shutter |-> shutter]

CodeSegmentPool ==
    {CodeSegment(0, 0, 1000000, 0, shutter) : shutter \in {"open", "closed"}}
        \cup {CodeSegment(1000000, 0, 1000000, 500000, shutter) :
                 shutter \in {"open", "closed"}}

\* Speeds of the table, in tenths of mm/s.
CodeSpeeds == {6, 10, 14}

InitCode ==
    /\ pc = "code_job"
    /\ GroupIdle
    /\ FillCodeIdle
    /\ ArcIdle
    /\ StitchIdle
    /\ SpiralIdle
    /\ RegionIdle
    /\ RasterIdle
    /\ HierarchyIdle
    /\ ContourIdle
    /\ traj_with_shutter = <<>>
    /\ traj_simplified = <<>>
    /\ traj_resimplified = <<>>
    /\ trajectory_file = <<>>
    /\ program = None
    /\ \E n \in 0..MaxCodeSegs : code_segments \in [1..n -> CodeSegmentPool]
    /\ code_speed \in CodeSpeeds

\* generate_aerobasic_code(segments, z_coord, speed) returns the program.
GenerateCode ==
    /\ pc = "code_job"
    /\ LET code_lines ==
             generate_aerobasic_code(code_segments, ConstantZ, code_speed)
       IN  /\ ~ code_lines.raised
           /\ program' = Some(code_lines.value)
    /\ pc' = "generated"
    /\ UNCHANGED <<groupVars, fillCodeVars, codeVars, arcVars, stitchVars,
                   spiralVars, trajectory_file,
                   regionVars, rasterVars, simplifyVars, hierarchyVars,
                   contourVars>>

\* generate_aerobasic_code raises at line 61.
GenerateCodeRaises ==
    /\ pc = "code_job"
    /\ generate_aerobasic_code(code_segments, ConstantZ, code_speed).raised
    /\ pc' = "raised"
    /\ UNCHANGED <<groupVars, fillCodeVars, codeVars, arcVars, stitchVars,
                   spiralVars, emitVars,
                   regionVars, rasterVars, simplifyVars, hierarchyVars,
                   contourVars>>

NextCode == GenerateCode \/ GenerateCodeRaises

SpecCode == InitCode /\ [][NextCode]_vars

(***************************************************************************)
(* group_connected_edges on lists of edges drawn from a pool: three sides  *)
(* and an arc around a square, stored in either direction, and an edge     *)
(* apart from them.  One state for each turn of its loops; the program     *)
(* runs on its own, so every enabled step is eventually taken.             *)
(***************************************************************************)
MaxEdges == 4

Edge(type, start, end) == [type |-> type, start |-> start, end |-> end]

EdgePool ==
    {Edge("LINE", <<0, 0, 0>>, <<1, 0, 0>>),
     Edge("LINE", <<1, 1, 0>>, <<1, 0, 0>>),
     Edge("ARC", <<1, 1, 0>>, <<0, 1, 0>>),
     Edge("LWPOLYLINE_SEGMENT", <<0, 1, 0>>, <<0, 0, 0>>),
     Edge("LINE", <<5, 5, 0>>, <<6, 5, 0>>)}

InitGroup ==
    /\ pc = "group_job"
    /\ EmitIdle
    /\ CodeIdle
    /\ FillCodeIdle
    /\ ArcIdle
    /\ StitchIdle
    /\ SpiralIdle
    /\ RegionIdle
    /\ RasterIdle
    /\ HierarchyIdle
    /\ ContourIdle
    /\ traj_with_shutter = <<>>
    /\ traj_simplified = <<>>
    /\ traj_resimplified = <<>>
    /\ \E n \in 0..MaxEdges : edges \in [1..n -> EdgePool]
    /\ vertices_map = BuildVertices(edges)
    /\ visited = {}
    /\ stack = <<>>
    /\ current_plane = <<>>
    /\ edge_idx = 0
    /\ grouped_planes = <<>>

\* Lines 160-161: visited = set(), planes = [].
StartGrouping ==
    /\ pc = "group_job"
    /\ visited' = {}
    /\ grouped_planes' = <<>>
    /\ edge_idx' = 0
    /\ pc' = "edges"
    /\ UNCHANGED <<edges, vertices_map, stack, current_plane, fillCodeVars,
                   codeVars, arcVars, stitchVars, spiralVars, emitVars,
                   regionVars, rasterVars, simplifyVars, hierarchyVars,
                   contourVars>>

\* Lines 163-164: the outer loop comes to an edge that is already grouped.
SkipVisitedEdge ==
    /\ pc = "edges"
    /\ edge_idx < Len(edges)
    /\ edge_idx \in visited
    /\ edge_idx' = edge_idx + 1
    /\ UNCHANGED <<pc, edges, vertices_map, visited, stack, current_plane,
                   grouped_planes, fillCodeVars, codeVars, arcVars,
                   stitchVars, spiralVars, emitVars, regionVars, rasterVars,
                   simplifyVars, hierarchyVars, contourVars>>

\* Lines 164-166: the outer loop comes to an edge not yet grouped.
StartPlane ==
    /\ pc = "edges"
    /\ edge_idx < Len(edges)
    /\ edge_idx \notin visited
    /\ current_plane' = <<>>
    /\ stack' = <<edge_idx>>
    /\ pc' = "stack"
    /\ UNCHANGED <<edges, vertices_map, visited, edge_idx, grouped_planes,
                   fillCodeVars, codeVars, arcVars, stitchVars, spiralVars,
                   emitVars, regionVars, rasterVars, simplifyVars,
                   hierarchyVars, contourVars>>

\* Lines 168-182: one turn of the inner loop.  The neighbours of each
\* connection point are pushed in the order the set yields them.
PopEdge ==
    /\ pc = "stack"
    /\ stack # <<>>
    /\ LET current_edge_idx == stack[Len(stack)]
           popped == SubSeq(stack, 1, Len(stack) - 1)
       IN  IF current_edge_idx \in visited
           THEN /\ stack' = popped
                /\ UNCHANGED <<visited, current_plane>>
           ELSE LET connection_points ==
                        ConnectionPoints(edges[current_edge_idx + 1])
                    now_visited == visited \cup {current_edge_idx}
                    unvisited(point) ==
                        VerticesGet(vertices_map, point) \ now_visited
                IN  /\ visited' = now_visited
                    /\ current_plane' = Append(current_plane, current_edge_idx)
                    /\ \E pushed \in
                          [1..Len(connection_points) ->
                              UNION {Orderings(unvisited(connection_points[c])) :
                                        c \in 1..Len(connection_points)}] :
                          /\ \A c \in 1..Len(connection_points) :
                                pushed[c] \in
                                    Orderings(unvisited(connection_points[c]))
                          /\ stack' = popped \o Concat(pushed)
    /\ UNCHANGED <<pc, edges, vertices_map, edge_idx, grouped_planes,
                   fillCodeVars, codeVars, arcVars, stitchVars, spiralVars,
                   emitVars, regionVars, rasterVars, simplifyVars,
                   hierarchyVars, contourVars>>

\* Lines 184-191: the stack is empty, the plane is added to the planes.
ClosePlane ==
    /\ pc = "stack"
    /\ stack = <<>>
    /\ grouped_planes' = IF current_plane # <<>>
                         THEN Append(grouped_planes, current_plane)
                         ELSE grouped_planes
    /\ edge_idx' = edge_idx + 1
    /\ pc' = "edges"
    /\ UNCHANGED <<edges, vertices_map, visited, stack, current_plane,
                   fillCodeVars, codeVars, arcVars, stitchVars, spiralVars,
                   emitVars, regionVars, rasterVars, simplifyVars,
                   hierarchyVars, contourVars>>

\* Line 193: return planes.
ReturnPlanes ==
    /\ pc = "edges"
    /\ edge_idx = Len(edges)
    /\ pc' = "grouped"
    /\ UNCHANGED <<groupVars, fillCodeVars, codeVars, arcVars, stitchVars,
                   spiralVars, emitVars, regionVars, rasterVars, simplifyVars,
                   hierarchyVars, contourVars>>

NextGroup ==
    \/ StartGrouping
    \/ SkipVisitedEdge
    \/ StartPlane
    \/ PopEdge
    \/ ClosePlane
    \/ ReturnPlanes

SpecGroup == InitGroup /\ [][NextGroup]_vars /\ WF_vars(NextGroup)

(***************************************************************************)
(* Properties of the path simplifier                                       *)
(***************************************************************************)

\* The cross product of the direction vectors of two segments is below tol
\* in absolute value.
DirectionsCollinear(s1, s2, tol) ==
    ProductDifferenceBelow(s1.end[1] - s1.start[1], s2.end[2] - s2.start[2],
                           s1.end[2] - s1.start[2], s2.end[1] - s2.start[1],
                           tol)

\* The shutter states of a segment list, consecutive repeats collapsed.
RECURSIVE CollapsedStates(_)
CollapsedStates(traj) ==
    IF traj = <<>>
    THEN <<>>
    ELSE LET rest == CollapsedStates(Tail(traj))
         IN  IF rest # <<>> /\ rest[1] = traj[1].shutter
             THEN rest
             ELSE <<traj[1].shutter>> \o rest

\* C1: simplify_trajectory is idempotent on every contiguous chain of
\* segments, zero-length segments and chains that double back included:
\* simplifying the simplified list gives the simplified list.
C1_SimplifyIdempotent ==
    (pc = "resimplified" /\ IsContiguous(traj_with_shutter))
        => traj_resimplified = traj_simplified

\* C2: in the output of simplify_trajectory on a contiguous chain, no two
\* consecutive segments have the same shutter state and direction vectors
\* whose cross product is below the tolerance.
C2_NoMergeableNeighbours ==
    (pc = "simplified" /\ IsContiguous(traj_with_shutter))
        => \A k \in 1..(Len(traj_simplified) - 1) :
              ~ (/\ traj_simplified[k].shutter = traj_simplified[k + 1].shutter
                 /\ DirectionsCollinear(traj_simplified[k],
                                        traj_simplified[k + 1], TolCollinear))

\* C3: for every non-empty segment list, the simplified list is non-empty,
\* starts at the start point of the first input segment and ends at the end
\* point of the last input segment.
C3_EndpointsPreserved ==
    (pc = "simplified" /\ traj_with_shutter # <<>>)
        => /\ traj_simplified # <<>>
           /\ traj_simplified[1].start = traj_with_shutter[1].start
           /\ traj_simplified[Len(traj_simplified)].end
                 = traj_with_shutter[Len(traj_with_shutter)].end

\* C3 witness: a list of three segments whose last two were merged.
C3_Witness ==
    /\ pc = "simplified"
    /\ Len(traj_with_shutter) = 3
    /\ Len(traj_simplified) = 2
    /\ traj_simplified[2].start = traj_with_shutter[2].start
    /\ traj_simplified[2].end = traj_with_shutter[3].end
    /\ traj_with_shutter[3].end # traj_with_shutter[2].end

\* C4: simplify_trajectory never merges across a change of shutter state: the
\* collapsed state sequence of the output is that of the input, and wherever
\* the state changes between two input segments, the first one's end point
\* ends an output segment and the second one's start point starts the next.
C4_StateChangesSplit ==
    pc = "simplified"
        => /\ CollapsedStates(traj_simplified)
                 = CollapsedStates(traj_with_shutter)
           /\ \A k \in 1..(Len(traj_with_shutter) - 1) :
                 traj_with_shutter[k].shutter # traj_with_shutter[k + 1].shutter
                   => \E m \in 1..(Len(traj_simplified) - 1) :
                        /\ traj_simplified[m].end = traj_with_shutter[k].end
                        /\ traj_simplified[m + 1].start
                              = traj_with_shutter[k + 1].start
                        /\ traj_simplified[m].shutter
                              = traj_with_shutter[k].shutter
                        /\ traj_simplified[m + 1].shutter
                              = traj_with_shutter[k + 1].shutter

\* C4 witness: three collinear segments open, closed, closed: the state change
\* is kept as a split while the two closed segments are merged.
C4_Witness ==
    /\ pc = "simplified"
    /\ Len(traj_with_shutter) = 3
    /\ IsContiguous(traj_with_shutter)
    /\ traj_with_shutter[1].shutter = "open"
    /\ traj_with_shutter[2].shutter = "closed"
    /\ traj_with_shutter[3].shutter = "closed"
    /\ are_collinear(traj_with_shutter[1].start, traj_with_shutter[1].end,
                     traj_with_shutter[2].end, TolCollinear)
    /\ traj_with_shutter[1].start # traj_with_shutter[1].end
    /\ traj_with_shutter[2].start # traj_with_shutter[2].end
    /\ Len(traj_simplified) = 2

(***************************************************************************)
(* Properties of the shutter assignment                                    *)
(***************************************************************************)

\* The point's distance to the ring is below tol: to the nearest side for a
\* point inside, to the nearest point of the rectangle for one outside.
NearRing(pt, r, tol) ==
    IF InRingClosed(pt, r)
    THEN \/ pt[1] - r.minx < tol
         \/ r.maxx - pt[1] < tol
         \/ pt[2] - r.miny < tol
         \/ r.maxy - pt[2] < tol
    ELSE LET dx == IF pt[1] < r.minx THEN r.minx - pt[1]
                   ELSE IF pt[1] > r.maxx THEN pt[1] - r.maxx ELSE 0
             dy == IF pt[2] < r.miny THEN r.miny - pt[2]
                   ELSE IF pt[2] > r.maxy THEN pt[2] - r.maxy ELSE 0
         IN  dx < tol /\ dy < tol /\ dx * dx + dy * dy < tol * tol

\* OnBoundary as section 4.6 defines it: within 1e-3 of the outer ring.
NearOuterRing(pt) == NearRing(pt, allowed_area.shell[1], TolBorder)

\* Within 1e-3 of the hole's ring.
NearHoleRing(pt) ==
    hole_poly.shell # <<>> /\ NearRing(pt, hole_poly.shell[1], TolBorder)

\* Zone Allowed: inside the outer ring and not inside the hole ring.
InAllowedZone(pt) ==
    /\ InRingInterior(pt, allowed_area.shell[1])
    /\ ~ (hole_poly.shell # <<>> /\ InRingInterior(pt, hole_poly.shell[1]))

\* Zone Outside: neither inside the outer ring nor on it.
InOutsideZone(pt) == ~ InRingClosed(pt, allowed_area.shell[1])

\* The assignment produced one segment per consecutive pair of fill points.
SegmentsFollowTrajectory ==
    /\ Len(traj_with_shutter) = Max2(Len(trajectory) - 1, 0)
    /\ \A k \in 1..Len(traj_with_shutter) :
         /\ traj_with_shutter[k].start = trajectory[k]
         /\ traj_with_shutter[k].end = trajectory[k + 1]

\* C5: the segment between consecutive fill points is open whenever one of
\* them lies within the boundary tolerance of the outer ring, whatever the zone
\* of the other point.
C5_BoundaryOverride ==
    pc = "shuttered"
        => /\ SegmentsFollowTrajectory
           /\ \A k \in 1..Len(traj_with_shutter) :
                 (NearOuterRing(trajectory[k]) \/ NearOuterRing(trajectory[k + 1]))
                     => traj_with_shutter[k].shutter = "open"

\* C5 witness: a segment from a point exactly on the outer ring to a point
\* in zone Outside and away from the ring, classified open.
C5_Witness ==
    /\ pc = "shuttered"
    /\ \E k \in 1..Len(traj_with_shutter) :
         /\ trajectory[k] = <<0, 5 * U>>
         /\ InOutsideZone(trajectory[k + 1])
         /\ ~ NearOuterRing(trajectory[k + 1])
         /\ traj_with_shutter[k].shutter = "open"

\* C6: with OnBoundary the flag of section 4.6 (within tolerance of the outer
\* ring), when neither point is flagged, the segment is open if and only if
\* both points are in zone Allowed.
C6_DefaultState_OuterRingFlag ==
    pc = "shuttered"
        => \A k \in 1..Len(traj_with_shutter) :
              (~ NearOuterRing(trajectory[k]) /\ ~ NearOuterRing(trajectory[k + 1]))
                  => (traj_with_shutter[k].shutter = "open"
                        <=> (InAllowedZone(trajectory[k])
                             /\ InAllowedZone(trajectory[k + 1])))

\* The default state away from both rings: when neither point is within
\* tolerance of the outer ring or of the hole's ring, the segment is open if
\* and only if both points are in zone Allowed, and closed in every other
\* combination of zones.
C6_DefaultState ==
    pc = "shuttered"
        => /\ SegmentsFollowTrajectory
           /\ \A k \in 1..Len(traj_with_shutter) :
                 (/\ ~ NearOuterRing(trajectory[k])
                  /\ ~ NearOuterRing(trajectory[k + 1])
                  /\ ~ NearHoleRing(trajectory[k])
                  /\ ~ NearHoleRing(trajectory[k + 1]))
                     => (traj_with_shutter[k].shutter
                           = IF InAllowedZone(trajectory[k])
                                /\ InAllowedZone(trajectory[k + 1])
                             THEN "open" ELSE "closed")

\* A path Allowed -> Allowed -> Void with a hole and no point near a ring
\* gives open, closed.
C6_Witness ==
    /\ pc = "shuttered"
    /\ hole_poly # EmptyPolygon
    /\ trajectory = <<<<TolBorder, 5 * U>>, <<2 * U, 5 * U>>,
                       <<5 * U, 5 * U>>>>
    /\ traj_with_shutter[1].shutter = "open"
    /\ traj_with_shutter[2].shutter = "closed"

\* The point lies on the ring r.
OnRing(pt, r) == InRingClosed(pt, r) /\ ~ InRingInterior(pt, r)

\* One of the two points is strictly inside the hole, the other on the hole's
\* ring, and both are farther than the tolerance from the outer ring.
VoidToHoleRing(p1, p2) ==
    /\ hole_poly.shell # <<>>
    /\ \/ InRingInterior(p1, hole_poly.shell[1]) /\ OnRing(p2, hole_poly.shell[1])
       \/ InRingInterior(p2, hole_poly.shell[1]) /\ OnRing(p1, hole_poly.shell[1])
    /\ ~ NearOuterRing(p1)
    /\ ~ NearOuterRing(p2)

\* C18: the boundary override looks at the outer ring only, so a segment from
\* a point strictly inside the hole to a point on the hole's ring, both away
\* from the outer ring, is closed.
C18_HoleRingNotOverridden ==
    pc = "shuttered"
        => \A k \in 1..Len(traj_with_shutter) :
              VoidToHoleRing(trajectory[k], trajectory[k + 1])
                  => traj_with_shutter[k].shutter = "closed"

(***************************************************************************)
(* End-to-end scenario: 10 x 10 square, centred 2 x 2 hole, spacing 1      *)
(***************************************************************************)

EndToEndScenario ==
    /\ father_poly = Polygon(FatherRing, <<>>)
    /\ hole_poly = Polygon(SonRing, <<>>)
    /\ spacing = U

DirectionsOpposed(s1, s2) ==
    (s1.end[1] - s1.start[1]) * (s2.end[1] - s2.start[1])
        + (s1.end[2] - s1.start[2]) * (s2.end[2] - s2.start[2]) < 0

\* The end point of segment k of a chain is a corner: the direction of travel
\* changes there (a turn beyond the tolerance, or a reversal along the same
\* line), or the state does.
IsCorner(traj, k) ==
    \/ traj[k].shutter # traj[k + 1].shutter
    \/ ~ DirectionsCollinear(traj[k], traj[k + 1], TolCollinear)
    \/ DirectionsOpposed(traj[k], traj[k + 1])

SegmentEndpoints(traj) ==
    {traj[k].start : k \in 1..Len(traj)} \cup {traj[k].end : k \in 1..Len(traj)}

\* C17: every corner of a contiguous input chain, reversals included, is an
\* endpoint of some segment of the simplified list.
C17_CornersPreserved ==
    (pc = "simplified" /\ IsContiguous(traj_with_shutter))
        => \A k \in 1..(Len(traj_with_shutter) - 1) :
              IsCorner(traj_with_shutter, k)
                  => traj_with_shutter[k].end
                         \in SegmentEndpoints(traj_simplified)

(***************************************************************************)
(* Properties of the raster generator                                      *)
(***************************************************************************)

\* A scanline has been processed; its index (from 0) and its segments.
LineProcessed == pc = "raster" /\ scan_i >= 1

LastLine == scan_i - 1

LastLineSegments ==
    SeqRange(Intersection(father_poly, scanlines[scan_i], FALSE))

\* Two points of the last line lie on the same segment of its intersection.
OnSameSegment(p, q) ==
    \E seg \in LastLineSegments :
        /\ seg[1][1] <= p[1] /\ p[1] <= seg[2][1]
        /\ seg[1][1] <= q[1] /\ q[1] <= seg[2][1]

\* The tolerance delta on the sample distance, a hundredth of the spacing.
SpacingTolerance == spacing \div 100

\* C14: consecutive samples taken on one intersection segment are at most
\* spacing + delta apart, for every segment length, lengths between the
\* spacing and twice the spacing included.
C14_SampleSpacing ==
    LineProcessed
        => \A k \in 1..(Len(line_points) - 1) :
              OnSameSegment(line_points[k], line_points[k + 1])
                  => Abs(line_points[k + 1][1] - line_points[k][1])
                         <= spacing + SpacingTolerance

NonDecreasingX(ps) ==
    \A k \in 1..(Len(ps) - 1) : ps[k][1] <= ps[k + 1][1]

NonIncreasingX(ps) ==
    \A k \in 1..(Len(ps) - 1) : ps[k][1] >= ps[k + 1][1]

\* C15: the points contributed by scanline i run left to right when i is
\* even and right to left when i is odd, whether the line meets the polygon
\* in one segment or in several.
C15_Serpentine ==
    LineProcessed
        => IF LastLine % 2 = 0
           THEN NonDecreasingX(line_points)
           ELSE NonIncreasingX(line_points)

(***************************************************************************)
(* Properties of the spiral generator                                      *)
(***************************************************************************)

\* The samples taken so far: as many flags as points, every point within
\* max_r + spacing of the centroid, the first point the centroid itself.
SpiralSamplesBounded ==
    pc \in {"spiral", "spiral_done"}
        => /\ Len(pts) = Len(states)
           /\ \A k \in 1..Len(pts) :
                 Distance(pts[k], Centroid(polygon))
                     <= MaxRadius(polygon) + spacing
           /\ pts # <<>> => pts[1] = Centroid(polygon)
           /\ pc = "spiral_done" => pts # <<>>

\* C16: generate_spiral_fill terminates, returns as many inside flags as
\* points, every sample is within R + s of the centroid and the first sample
\* is the centroid.
C16_SpiralTerminatesBounded ==
    /\ []SpiralSamplesBounded
    /\ <>(pc = "spiral_done")

\* C16 witness: a spiral returned with more than twenty samples, some inside
\* the polygon and some outside, the last one farther than max_r - spacing.
C16_Witness ==
    /\ pc = "spiral_done"
    /\ Len(pts) > 20
    /\ \E k \in 1..Len(states) : states[k]
    /\ \E k \in 1..Len(states) : ~ states[k]
    /\ Distance(pts[Len(pts)], Centroid(polygon))
          > MaxRadius(polygon) - spacing

(***************************************************************************)
(* Properties of the empty fill                                            *)
(***************************************************************************)

\* C12: when the fill yields no point or a single point, the shutter
\* assignment and the simplifier return an empty path without raising, and
\* the emitter's entry point writes no program and does not raise.
C12_EmptyFillIsNoOp ==
    Len(trajectory) <= 1
        => /\ pc \notin {"points"} => traj_with_shutter = <<>>
           /\ pc \notin {"points", "shuttered"} => traj_simplified = <<>>
           /\ pc \notin {"points", "shuttered", "simplified"}
                 => pc = "saved" \/ (pc = "no_program" /\ program = None)

\* C12 witness: a single fill point carried through the assignment, the
\* simplifier, the saved file (header only) and the emitter.
C12_Witness ==
    /\ Len(trajectory) = 1
    /\ pc = "no_program"
    /\ Len(trajectory_file) = 3
    /\ program = None

(***************************************************************************)
(* Properties of the hierarchy detection                                   *)
(***************************************************************************)

\* Plane j's polygon is strictly nested in plane i's: every vertex of j lies
\* inside or on the ring of i, and the two rings differ (indices from 0).
StrictlyNested(i, j) ==
    /\ planes_info[i + 1].polygon # None
    /\ planes_info[j + 1].polygon # None
    /\ \A v \in SeqRange(planes_info[j + 1].vertices) :
          InRingClosed(v, planes_info[i + 1].polygon[1].shell[1])
    /\ planes_info[j + 1].polygon # planes_info[i + 1].polygon

PlaneIndices == 0..(Len(planes_info) - 1)

\* C8: for any two planes whose polygons are strictly nested, j inside i, in
\* either list order, detect_hierarchy reports the pair (i, j) and never (j, i).
C8_NestedPairReported ==
    pc = "hierarchy"
        => \A i \in PlaneIndices : \A j \in PlaneIndices :
              StrictlyNested(i, j)
                  => /\ <<i, j>> \in SeqRange(hierarchy)
                     /\ <<j, i>> \notin SeqRange(hierarchy)

\* C8 witness: the square of side 2 listed before the square of side 10, both
\* centred at the origin, and the pair (1, 0) reported.
C8_Witness ==
    /\ pc = "hierarchy"
    /\ Len(planes_info) = 2
    /\ planes_info[1].vertices = Corners(0 - U, 0 - U, U, U)
    /\ planes_info[2].vertices = Corners(0 - 5 * U, 0 - 5 * U, 5 * U, 5 * U)
    /\ hierarchy = <<<<1, 0>>>>

\* The plane of index i (from 0) has no polygon: fewer than 3 vertices.
HasNoPolygon(i) == Len(planes_info[i + 1].vertices) < 3

\* C11: a plane with fewer than 3 vertices appears in no pair returned by
\* detect_hierarchy and is selected neither as the parent nor as the void of
\* the fill job, also when no hierarchy is detected.
C11_NoPolygonPlaneNeverUsed ==
    /\ pc \in {"hierarchy", "selected"}
          => \A k \in 1..Len(hierarchy) :
                /\ ~ HasNoPolygon(hierarchy[k][1])
                /\ ~ HasNoPolygon(hierarchy[k][2])
    /\ pc = "selected"
          => /\ ~ HasNoPolygon(father_idx)
             /\ son_idx # NoIndex => ~ HasNoPolygon(son_idx)

\* The pairs (parent, child) that the containment test accepts.
NestedPairs ==
    {pr \in PlaneIndices \X PlaneIndices : IsChildOf(planes_info, pr[1], pr[2])}

\* C13: when detect_hierarchy returns at least one pair, the job's parent and
\* void are the pair with the least parent index and, for that parent, the
\* least child index; when it returns none, the parent is plane 0 and there
\* is no void.
C13_FirstPairSelected ==
    pc = "selected"
        => IF NestedPairs # {}
           THEN /\ <<father_idx, son_idx>> \in NestedPairs
                /\ \A q \in NestedPairs :
                      \/ father_idx < q[1]
                      \/ father_idx = q[1] /\ son_idx <= q[2]
           ELSE father_idx = 0 /\ son_idx = NoIndex

\* C13 witness: three nested squares listed as side 6, side 2, side 10; three
\* pairs are detected and the first, (0, 1), is selected.
C13_Witness ==
    /\ pc = "selected"
    /\ Len(planes_info) = 3
    /\ planes_info[1].vertices = Corners(0 - 3 * U, 0 - 3 * U, 3 * U, 3 * U)
    /\ planes_info[2].vertices = Corners(0 - U, 0 - U, U, U)
    /\ planes_info[3].vertices = Corners(0 - 5 * U, 0 - 5 * U, 5 * U, 5 * U)
    /\ hierarchy = <<<<0, 1>>, <<2, 0>>, <<2, 1>>>>
    /\ father_idx = 0
    /\ son_idx = 1

\* C13 witness of the fallback: two planes side by side, no pair detected,
\* plane 0 selected without a void.
C13_FallbackReached ==
    /\ pc = "selected"
    /\ Len(planes_info) >= 2
    /\ hierarchy = <<>>
    /\ father_idx = 0
    /\ son_idx = NoIndex

(***************************************************************************)
(* Properties of the contour builder                                       *)
(***************************************************************************)

\* C9: whenever build_polygon_segments returns a contour, the contour's first
\* and last points differ by less than 1e-5 in every coordinate, whether or
\* not the segments connected.
C9_ContourClosed ==
    pc = "contour"
        => /\ contour.value # <<>>
           /\ \A c \in 1..3 :
                 Abs(contour.value[1][c]
                       - contour.value[Len(contour.value)][c]) < TolPoint

\* C9 witness: segments that did not connect (the warning was printed) and
\* did not end where they started, closed by a copy of the first point.
C9_Witness ==
    /\ pc = "contour"
    /\ contour.warned
    /\ Len(contour.value) >= 4
    /\ contour.value[Len(contour.value)] = contour.value[1]
    /\ contour.value[Len(contour.value) - 1] # contour.value[1]

\* C10: build_polygon_segments never raises, whatever the segment list (the
\* empty list and lists that yield no point included): it returns a contour.
C10_NeverRaises ==
    pc # "segments" => (pc = "contour" /\ ~ contour.raised)

\* The vertices of the triangle whose sides are in the pool, in ring order.
TriangleRing == <<Pt(0, 0), Pt(U, 0), Pt(U, U), Pt(0, 0)>>

\* The segment list traces the triangle: its k-th segment is the k-th side,
\* given in one direction or the other.
TracesTriangle(segs) ==
    /\ Len(segs) = 3
    /\ \A k \in 1..3 :
         \/ segs[k] = LineSegment(Some(TriangleRing[k]), Some(TriangleRing[k + 1]))
         \/ segs[k] = LineSegment(Some(TriangleRing[k + 1]), Some(TriangleRing[k]))

\* The contour walks once around the triangle: its three vertices, each once,
\* and the first again at the end.
WalksTriangleOnce(value) ==
    /\ Len(value) = 4
    /\ value[4] = value[1]
    /\ {value[1], value[2], value[3]} = SeqRange(TriangleRing)

\* C19: for a list of segments that traces one closed ring, each segment, the
\* first included, given in either direction, build_polygon_segments returns
\* the ring's vertices in ring order, each shared vertex once, without the
\* connectivity warning.
C19_EitherOrientation ==
    (pc \in {"contour", "raised"} /\ TracesTriangle(segments))
        => /\ ~ contour.raised
           /\ ~ contour.warned
           /\ WalksTriangleOnce(contour.value)

\* With the first side given along the ring, the other two sides may come in
\* either direction.
C19_FirstSideForward ==
    (pc \in {"contour", "raised"} /\ TracesTriangle(segments)
       /\ segments[1].desde = Some(TriangleRing[1]))
        => /\ ~ contour.raised
           /\ ~ contour.warned
           /\ contour.value = TriangleRing

\* The points of the segment stitched by the step under way.
NextSegmentPoints == get_segment_points(segments[seg_i + 1], resolution).value

\* The last point of the contour equals pt within 1e-5 in every coordinate.
LastPointIs(pt) ==
    \A c \in 1..3 : Abs(polygon_points[Len(polygon_points)][c] - pt[c]) < TolPoint

\* What the stitching rule appends to a non-empty contour for the points sp.
RuleAppends(sp) ==
    IF LastPointIs(sp[1])
    THEN SubSeq(sp, 2, Len(sp))
    ELSE IF LastPointIs(sp[Len(sp)])
         THEN [k \in 1..(Len(sp) - 1) |-> sp[Len(sp) - k]]
         ELSE sp

\* C20: for each segment after the first, the contour grows by the segment's
\* points after the first when its last point equals the segment's first
\* point within 1e-5, else by the reversed points less the shared one when it
\* equals the segment's last point, else by all the points in their given
\* order; the points already in the contour stay as they are.
C20_StitchingRule ==
    [][(pc = "stitching" /\ seg_i' = seg_i + 1 /\ polygon_points # <<>>
          /\ NextSegmentPoints # <<>>)
         => polygon_points' = polygon_points \o RuleAppends(NextSegmentPoints)]_vars

\* C20 witness: the second side of the triangle, given against the ring,
\* stitched reversed to the first.
C20_Witness ==
    /\ pc = "stitching"
    /\ seg_i = 2
    /\ segments[2] = LineSegment(Some(Pt(U, U)), Some(Pt(U, 0)))
    /\ polygon_points = <<Pt(0, 0), Pt(U, 0), Pt(U, U)>>
    /\ ~ warned

\* An arc has been interpolated.
ArcInterpolated == pc \in {"contour_arc", "fill_arc"}

\* The start and end angles differ as directions.
ProperArc == (arc.angulos[1][1] - arc.angulos[1][2]) % 360 # 0

\* The returned points start at the arc's start point and end at its end
\* point.
RunsFromStartToEnd ==
    /\ arc_points # <<>>
    /\ arc_points[1] = arc.desde[1]
    /\ arc_points[Len(arc_points)] = arc.hasta[1]

AnglesDecrease ==
    \A k \in 1..(Len(arc_angles) - 1) : arc_angles[k + 1] < arc_angles[k]

AnglesIncrease ==
    \A k \in 1..(Len(arc_angles) - 1) : arc_angles[k + 1] > arc_angles[k]

\* Each returned point is the point of the circle at its angle.
ArcPointsAtAngles ==
    ArcInterpolated =>
        /\ Len(arc_points) = Len(arc_angles)
        /\ \A k \in 1..Len(arc_points) :
              arc_points[k] = PointAtAngle(arc_angles[k])

\* C21: in every arc interpolation the returned points run from the arc's
\* start point to its end point, with decreasing angle (clockwise) when the
\* z component of the extrusion is negative and with increasing angle
\* (counter-clockwise) otherwise.
C21_SweepFollowsExtrusion ==
    (ArcInterpolated /\ ProperArc) =>
        /\ RunsFromStartToEnd
        /\ IF extrusion_z < 0 THEN AnglesDecrease ELSE AnglesIncrease

\* The contour builder's interpolation sweeps counter-clockwise whatever the
\* extrusion is.
C21_ContourAlwaysCounterClockwise ==
    (pc = "contour_arc" /\ ProperArc) =>
        (RunsFromStartToEnd /\ AnglesIncrease)

\* The fill programs' interpolation sweeps counter-clockwise for a negative
\* extrusion and clockwise otherwise.
C21_FillSweepsOpposite ==
    (pc = "fill_arc" /\ ProperArc) =>
        /\ RunsFromStartToEnd
        /\ IF extrusion_z < 0 THEN AnglesIncrease ELSE AnglesDecrease

\* The angles are evenly spaced.
EvenlySpaced ==
    \A k \in 1..(Len(arc_angles) - 1) :
        arc_angles[k + 1] - arc_angles[k] = arc_angles[2] - arc_angles[1]

TotalSweep == Abs(arc_angles[Len(arc_angles)] - arc_angles[1])

\* C22: for start and end angles in [0, 360] and either extrusion sign,
\* interpolate_arc returns resolution + 1 points whose angles are evenly
\* spaced and strictly monotonic, sweeping more than 0 and at most 360
\* degrees.
C22_MonotonicNonZeroSweep ==
    ArcInterpolated =>
        /\ Len(arc_points) = arc_resolution + 1
        /\ Len(arc_angles) = arc_resolution + 1
        /\ EvenlySpaced
        /\ AnglesIncrease \/ AnglesDecrease
        /\ TotalSweep > 0
        /\ TotalSweep <= 360

\* Apart from start 360 with end 0 in the contour builder, and from equal
\* angles, the pair 360, 0 with a negative extrusion and the pair 0, 360 with
\* another extrusion in the fill programs, the sweep is as C22 says.
C22_SweepOfOtherArcs ==
    (/\ ArcInterpolated
     /\ pc = "contour_arc" => arc.angulos[1] # <<360, 0>>
     /\ pc = "fill_arc" =>
           /\ arc.angulos[1][1] # arc.angulos[1][2]
           /\ extrusion_z < 0 => arc.angulos[1] # <<360, 0>>
           /\ extrusion_z >= 0 => arc.angulos[1] # <<0, 360>>)
        => /\ Len(arc_points) = arc_resolution + 1
           /\ EvenlySpaced
           /\ AnglesIncrease \/ AnglesDecrease
           /\ TotalSweep > 0
           /\ TotalSweep <= 360

\* C23: a scanline that contributes sample points adds them to the
\* trajectory, preceded by exactly one duplicate of the trajectory's last
\* point when the trajectory already has points; a scanline that contributes
\* no sample point (empty intersection, or an intersection that is not a
\* line) leaves the trajectory as it is.  Hence the trajectory's length is
\* the sum of the per-line sample counts plus the number of contributing
\* lines minus one.
C23_OneMarkerPerContributingLine ==
    [][(pc = "raster" /\ scan_i' = scan_i + 1)
         => trajectory'
              = IF line_points' = <<>>
                THEN trajectory
                ELSE IF trajectory = <<>>
                     THEN line_points'
                     ELSE trajectory \o <<trajectory[Len(trajectory)]>>
                              \o line_points']_vars

\* Between the lines that meet the polygon in line segments the marker is
\* placed as C23 says.
C23_MarkerBetweenLineIntersections ==
    [][(pc = "raster" /\ scan_i' = scan_i + 1 /\ line_points' # <<>>)
         => trajectory'
              = IF trajectory = <<>>
                THEN line_points'
                ELSE trajectory \o <<trajectory[Len(trajectory)]>>
                         \o line_points']_vars

\* The value of $SPEED when command k of the program runs: the value of the
\* last assignment before it (tenths of mm/s).
SpeedVariableAt(prog, k) ==
    LET assigned == {j \in 1..(k - 1) : prog[j].op = "$SPEED ="}
    IN  prog[SetMax(assigned)].value

\* The feed of a LINEAR move of the program.
FeedInForce(prog, k) ==
    IF prog[k].f = "$SPEED" THEN SpeedVariableAt(prog, k) ELSE prog[k].f

\* C24: in the program emitted from a simplified path the feed in force for
\* every LINEAR move of the path is the COLOR_SPEED_MAPPING value of the
\* color read from the trajectory header (1 for a color not in the table).
C24_FeedIsColorSpeed ==
    pc = "emitted"
        => \A k \in 1..Len(program[1]) :
              program[1][k].op = "LINEAR"
                  => FeedInForce(program[1], k)
                         = SpeedOfColor(HeaderColor(trajectory_file))

\* Every LINEAR move of the path runs at the feed 1 the header assigns.
C24_FeedIsOne ==
    pc = "emitted"
        => \A k \in 1..Len(program[1]) :
              program[1][k].op = "LINEAR"
                  => FeedInForce(program[1], k) = 10

\* The names the header of the program defines as macros.
DefinedMacros(prog) ==
    {prog[j].name : j \in {i \in 1..Len(prog) : prog[i].op = "#define"}}

\* The commands that name a shutter macro, defined or not.
IsShutterCommand(cmd) ==
    cmd.op \in {"ShutterOpen", "ShutterClose", "ShutterClosed"}

\* The commands that change the digital output of the shutter: the macros
\* the header defines.
SetsShutter(prog, j) == prog[j].op \in DefinedMacros(prog)

\* The state the macro of command j sets the shutter to.
StateSetBy(prog, j) ==
    LET def == CHOOSE i \in 1..Len(prog) :
                   prog[i].op = "#define" /\ prog[i].name = prog[j].op
    IN  IF prog[def].value = "$DO0.Z = 1" THEN "open" ELSE "closed"

\* The state of the shutter when command k of the program runs (k may be one
\* past the end); the controller starts with the output at 0.
ShutterAt(prog, k) ==
    LET set == {j \in 1..(k - 1) : SetsShutter(prog, j)}
    IN  IF set = {} THEN "closed" ELSE StateSetBy(prog, SetMax(set))

\* The positions of the moves of the path in the program: the first is the
\* move to the start of segment 1, move n + 1 the move of segment n.
LinearPositions(prog) == {j \in 1..Len(prog) : prog[j].op = "LINEAR"}

RECURSIVE NthOf(_, _)
NthOf(set, n) ==
    IF n = 1 THEN SetMin(set) ELSE NthOf(set \ {SetMin(set)}, n - 1)

\* The position of the move of segment n.
MoveOfSegment(prog, n) == NthOf(LinearPositions(prog), n + 1)

\* The number of shutter commands between the previous move and the move of
\* segment n.
ShutterCommandsBefore(prog, n) ==
    Cardinality({j \in (NthOf(LinearPositions(prog), n) + 1)
                         ..(MoveOfSegment(prog, n) - 1) :
                     IsShutterCommand(prog[j])})

\* A program has been produced, by main of the emitter or by a call of
\* generate_aerobasic_code alone, from the segments EmittedSegments.
ProgramEmitted == pc \in {"emitted", "generated"}

EmittedSegments ==
    IF pc = "generated" THEN code_segments ELSE ParsedSegments(trajectory_file)

\* C27: the shutter is closed at the move to the start of the path; during
\* the move of segment k the shutter is in segment k's state; and a shutter
\* command precedes the move of segment k exactly when its state differs from
\* the state of segment k - 1 (from closed for the first segment).
C27_ShutterFollowsSegments ==
    ProgramEmitted
        => /\ Cardinality(LinearPositions(program[1]))
                = Len(EmittedSegments) + 1
           /\ ShutterAt(program[1], NthOf(LinearPositions(program[1]), 1))
                = "closed"
           /\ \A n \in 1..Len(EmittedSegments) :
                 /\ ShutterAt(program[1], MoveOfSegment(program[1], n))
                      = EmittedSegments[n].shutter
                 /\ ShutterCommandsBefore(program[1], n)
                      = IF EmittedSegments[n].shutter
                             = (IF n = 1 THEN "closed"
                                ELSE EmittedSegments[n - 1].shutter)
                        THEN 0
                        ELSE 1

\* C27 witness: a program of a path that opens the shutter, keeps it open
\* over two consecutive segments and closes it again before a later segment.
C27_Witness ==
    /\ ProgramEmitted
    /\ \E n \in 2..Len(EmittedSegments) :
          /\ EmittedSegments[n].shutter = "open"
          /\ EmittedSegments[n - 1].shutter = "open"
    /\ \E n \in 2..Len(EmittedSegments) :
          /\ EmittedSegments[n].shutter = "closed"
          /\ EmittedSegments[n - 1].shutter = "open"

\* C28: the program of a non-empty segment list ends with the shutter closed,
\* and every shutter command in it is one of the two macros its header
\* defines.
C28_EndsClosedWithDefinedMacros ==
    ProgramEmitted
        => /\ \A j \in 1..Len(program[1]) :
                 IsShutterCommand(program[1][j])
                     => program[1][j].op \in DefinedMacros(program[1])
           /\ ShutterAt(program[1], Len(program[1]) + 1) = "closed"

\* The shutter commands among the moves of the path are defined macros; the
\* program ends with the shutter closed when its last segment is closed.
C28_MotionUsesDefinedMacros ==
    ProgramEmitted
        => /\ \A j \in 1..(Len(program[1]) - Len(ProgramFooter)) :
                 IsShutterCommand(program[1][j])
                     => program[1][j].op \in DefinedMacros(program[1])
           /\ EmittedSegments[Len(EmittedSegments)].shutter = "closed"
                 => ShutterAt(program[1], Len(program[1]) + 1) = "closed"

\* C25: when every input segment starts at the end point of the previous
\* one, every segment of the simplified list starts at the end point of the
\* previous output segment, and the simplified list has at most as many
\* segments as the input.
C25_ContiguityPreserved ==
    (pc \in {"simplified", "resimplified"} /\ IsContiguous(traj_with_shutter))
        => /\ IsContiguous(traj_simplified)
           /\ Len(traj_simplified) <= Len(traj_with_shutter)

\* C25 witness: a contiguous chain of three segments simplified to two, the
\* second of which starts where the first ends.
C25_Witness ==
    /\ pc = "simplified"
    /\ IsContiguous(traj_with_shutter)
    /\ Len(traj_with_shutter) = 3
    /\ Len(traj_simplified) = 2
    /\ traj_simplified[2].start = traj_simplified[1].end
    /\ traj_simplified[1].end # traj_simplified[1].start

\* The hierarchy has been computed.
HierarchyDetected == pc \in {"hierarchy", "selected"}

\* C26: the relation returned by detect_hierarchy holds no pair (i, i) and
\* never both (i, j) and (j, i), for every list of planes, lists with two
\* planes of identical polygons included.
C26_IrreflexiveAntisymmetric ==
    HierarchyDetected
        => \A pr \in SeqRange(hierarchy) :
              /\ pr[1] # pr[2]
              /\ <<pr[2], pr[1]>> \notin SeqRange(hierarchy)

\* The relation is irreflexive, and antisymmetric on planes whose polygons
\* differ.
C26_AntisymmetricOnDistinctPolygons ==
    HierarchyDetected
        => \A pr \in SeqRange(hierarchy) :
              /\ pr[1] # pr[2]
              /\ planes_info[pr[1] + 1].polygon # planes_info[pr[2] + 1].polygon
                    => <<pr[2], pr[1]>> \notin SeqRange(hierarchy)

\* The spiral program as far as it has been generated.
SpiralProgramSoFar == SpiralProgramHeader \o motion_blocks

\* The positions, in order, of the moves of the plane generated last: those
\* after the last assignment of $SPEED.  The first is the initial positioning
\* move, move k + 1 the move to sample k.
LastPlaneMoves(prog) ==
    LET speed_set == SetMax({j \in 1..Len(prog) : prog[j].op = "$SPEED ="})
    IN  SelectSeq([j \in 1..Len(prog) |-> j],
                  LAMBDA j : j > speed_set /\ prog[j].op = "LINEAR")

StateOfFlag(inside) == IF inside THEN "open" ELSE "closed"

\* C29: in the spiral program, for each plane the shutter is closed during
\* the initial positioning move, during the move to sample k it is in the
\* state of the inside flag of sample k, for every k, and it is closed after
\* the plane's last move whatever the last flag is.
C29_SpiralShutterFollowsFlags ==
    pc = "plane_done"
        => LET prog == SpiralProgramSoFar
               moves == LastPlaneMoves(prog)
           IN  /\ Len(moves) = Len(states) + 1
               /\ ShutterAt(prog, moves[1]) = "closed"
               /\ \A k \in 1..Len(states) :
                     /\ ShutterAt(prog, moves[k + 1]) = StateOfFlag(states[k])
                     /\ prog[moves[k + 1]].x = pts[k][1]
               /\ ShutterAt(prog, Len(prog) + 1) = "closed"

\* C29 witness: the commands of a second plane have been generated, for a
\* spiral that leaves the polygon, returns into it and ends on a sample
\* inside it.
C29_Witness ==
    /\ pc = "plane_done"
    /\ plane_count = 2
    /\ \E k \in 2..Len(states) : states[k] /\ ~ states[k - 1]
    /\ \E k \in 2..Len(states) : ~ states[k] /\ states[k - 1]
    /\ states[Len(states)]

\* Two edges share an identical end point.
SharePoint(i, j) ==
    {edges[i + 1].start, edges[i + 1].end}
        \cap {edges[j + 1].start, edges[j + 1].end} # {}

EdgeIndices == 0..(Len(edges) - 1)

\* The edges linked to the edges of S by chains of at most n more edges in
\* which consecutive edges share an end point.
RECURSIVE LinkedWithin(_, _)
LinkedWithin(S, n) ==
    IF n = 0
    THEN S
    ELSE LinkedWithin(S \cup {j \in EdgeIndices :
                                 \E i \in S : SharePoint(i, j)}, n - 1)

Linked(i, j) == j \in LinkedWithin({i}, Len(edges))

\* The planes (by number) in which edge i appears, with its positions.
Appearances(i) ==
    {<<k, q>> \in (1..Len(grouped_planes)) \X (1..Len(edges)) :
        q <= Len(grouped_planes[k]) /\ grouped_planes[k][q] = i}

InSamePlane(i, j) ==
    \E k \in 1..Len(grouped_planes) :
        /\ i \in SeqRange(grouped_planes[k])
        /\ j \in SeqRange(grouped_planes[k])

\* The planes returned partition the edges by the chains that link them.
GroupsAreLinkedClasses ==
    pc = "grouped"
        => /\ \A i \in EdgeIndices : Cardinality(Appearances(i)) = 1
           /\ \A k \in 1..Len(grouped_planes) :
                 SeqRange(grouped_planes[k]) \subseteq EdgeIndices
           /\ \A i \in EdgeIndices : \A j \in EdgeIndices :
                 InSamePlane(i, j) <=> Linked(i, j)

\* C30: group_connected_edges terminates, every edge appears in exactly one
\* of the planes it returns, and two edges are in the same plane if and only
\* if a chain of edges links them in which consecutive edges share an
\* identical end point.
C30_GroupingPartitionsEdges ==
    /\ <>(pc = "grouped")
    /\ []GroupsAreLinkedClasses

\* C30 witness: four edges grouped into two planes, the first and the second
\* edge in one plane though they share no end point: the third links them.
C30_Witness ==
    /\ pc = "grouped"
    /\ Len(edges) = 4
    /\ Len(grouped_planes) = 2
    /\ ~ SharePoint(0, 1)
    /\ InSamePlane(0, 1)
    /\ ~ InSamePlane(0, 3)

====
